---- MODULE Spec2Model ----
(***************************************************************************)
(* A state-machine model of gloox's ClientBase (src/src/clientbase.cpp):   *)
(* the transform chain, connection life cycle, stream open, stream         *)
(* management counters and the stanza dispatch layer.                      *)
(*                                                                         *)
(* The program state is one TLA+ variable per member of ClientBase.  The   *)
(* C++ methods are operators that map a state record to a state record,    *)
(* composed exactly as the methods call each other; an action applies one  *)
(* entry point (a public method or a collaborator callback) to the current *)
(* state.  The variable `trace` is the log of what the last entry point    *)
(* did: which collaborator calls and user callbacks it made, in order,     *)
(* each with a snapshot of the members at that moment.                     *)
(***************************************************************************)
EXTENDS Integers, Sequences, FiniteSets, TLC

VARIABLES
  m_connection,          \* TRUE iff the ConnectionBase pointer is non-null
  connectionState,       \* m_connection->state()
  m_encryption,          \* TRUE iff the TLSBase pointer is non-null
  m_compression,         \* TRUE iff the CompressionBase pointer is non-null
  m_encryptionActive,
  m_compressionActive,
  tlsState,              \* the TLS collaborator: "idle", "handshaking", "done"
  m_smContext,
  m_smSent,
  m_smHandled,
  m_smQueue,             \* std::map<int, Tag*>: function key -> the Tag
  smSends,               \* history: the stanzas send( Tag*, true, .. ) had to queue
  m_sid,
  m_selectedSaslMech,
  m_serverSignature,     \* std::string: a sequence of bytes
  m_authed,
  m_resourceBound,
  m_connectionListeners, \* std::list<ConnectionListener*>
  m_nextId,              \* the counter behind getID
  issuedIds,             \* history: the strings getID returned, in order
  m_iqIDHandlers,        \* std::map<std::string, TrackStruct>: function id -> track
  m_iqExtHandlers,       \* std::multimap<int, IqHandler*>: the pairs, as inserted
  m_tagHandlers,         \* TagHandlerList: TagHandlerStruct { tag, xmlns, th }
  m_iqHandlerMapMutex,   \* TRUE iff locked
  notifyThread,          \* the thread inside notifyIqHandlers: its position, its
                         \* iterator it_id and what became of it
  removeThread,          \* the thread inside removeIDHandler, and the handlers
                         \* whose removal has returned
  m_iqExtHandlerMapMutex,
  iqRegs,                \* history: every tracked send and what became of it
  deletedHandlers,       \* history: the IqHandlers the dispatcher deleted
  m_mucInvitationHandler,
  m_messageSessions,     \* std::list<MessageSession*>
  m_messageSessionHandlerChat,
  m_messageSessionHandlerNormal,
  m_messageSessionHandlerGroupchat,
  m_messageSessionHandlerHeadline,
  m_messageHandlers,     \* std::list<MessageHandler*>
  m_presenceHandlers,    \* std::list<PresenceHandler*>
  m_presenceJidHandlers, \* std::list<JidPresHandlerStruct>: { jid (bare), ph }
  m_subscriptionHandlers, \* std::list<SubscriptionHandler*>
  m_streamError,
  m_streamErrorText,     \* StringMap: function xml:lang -> text
  m_streamErrorCData,
  m_streamErrorAppCondition, \* Tag*: the name of the child, Null for none
  m_availableSaslMechs, \* int: the set of the mechanism bits
  m_jid, \* JID: username and server, byte strings
  m_authzid, \* JID: its bare form, << >> for an invalid JID
  m_authcid, \* std::string
  m_password, \* std::string
  m_gs2Header, \* std::string
  m_clientFirstMessageBare, \* std::string
  saslExchange, \* history: the client-first message of the last startSASL, and
                \* whether a challenge has set m_serverSignature since
  m_presenceExtensions, \* StanzaExtensionList: the extension types
  m_stats, \* StatisticsStruct: TRUE iff some stanza counter is not zero
  trace,                 \* log of the last entry point
  streamOver             \* history: this connection's stream has been closed

vars == << m_connection, connectionState, m_encryption, m_compression,
           m_encryptionActive, m_compressionActive, tlsState, m_smContext,
           m_smSent, m_smHandled, m_smQueue, smSends, m_sid, m_selectedSaslMech,
           m_serverSignature, m_authed, m_resourceBound,
           m_connectionListeners, m_nextId, issuedIds, m_iqIDHandlers, m_iqExtHandlers,
           m_tagHandlers, m_iqHandlerMapMutex, m_iqExtHandlerMapMutex,
           notifyThread, removeThread,
           iqRegs, deletedHandlers, m_mucInvitationHandler, m_messageSessions,
           m_messageSessionHandlerChat, m_messageSessionHandlerNormal,
           m_messageSessionHandlerGroupchat, m_messageSessionHandlerHeadline,
           m_messageHandlers, m_presenceHandlers, m_presenceJidHandlers,
           m_subscriptionHandlers, m_streamError, m_streamErrorText,
           m_streamErrorCData, m_streamErrorAppCondition,
           m_availableSaslMechs, m_jid, m_authzid, m_authcid, m_password,
           m_gs2Header, m_clientFirstMessageBare, saslExchange,
           m_presenceExtensions, m_stats, trace, streamOver >>

-----------------------------------------------------------------------------
(* Bounds of the model.                                                    *)

\* cap of the stream-management counters m_smSent and m_smHandled
MaxSm == 2
\* stanzas sent for the stream-management queue in one history
MaxSmSends == 2
\* longest list of tag handlers
MaxTagHandlers == 2
\* longest run of stanzas the application sends in one go
MaxBurst == 3
\* bytes of a ServerSignature (an HMAC-SHA1 has 20)
SigLen == 2
\* longest m_connectionListeners list
MaxListenerList == 2
\* longest `version` attribute of an inbound stream header, in characters
MaxVerLen == 3
\* the counter behind getID stops here
MaxNextId == 17
\* tracked IQ sends in one history
MaxIqRegs == 2
\* entries of the list of message sessions
MaxSessions == 2
\* entries of the list of global message handlers
MaxHandlerList == 2
\* handlers registered at a time, over all the registries
MaxRegistered == 2
\* children of one <stream:error>
MaxChildren == 2

\* the ConnectionListener objects of the application
Listeners == { 1, 2 }

\* a null pointer; the ClientBase object itself, which is an IqHandler
Null == "0"
This == "this"

\* the user's IqHandlers, MessageHandlers and MessageSessionHandlers
IqHandlers == { "ih1", "ih2" }
MessageHandlers == { "mh1", "mh2" }
MessageSessionHandlers == { "msh1", "msh2" }

\* StanzaExtension types
ExtPing == "ExtPing"
ExtError == "ExtError"
ExtUser == "ExtUser"
ExtMUCUser == "ExtMUCUser"

-----------------------------------------------------------------------------
(* Enumerations.                                                           *)

StreamErrorUndefined == "StreamErrorUndefined"

StateDisconnected == "StateDisconnected"
StateConnecting == "StateConnecting"
StateConnected == "StateConnected"

\* ConnectionState is ordered: disconnect() tests state() < StateConnecting
StateRank(st) ==
  CASE st = StateDisconnected -> 0
    [] st = StateConnecting -> 1
    [] st = StateConnected -> 2

\* SMContext; the tests in the source are all ">= CtxSMEnabled"
CtxSMInvalid == "CtxSMInvalid"
CtxSMFailed == "CtxSMFailed"
CtxSMEnable == "CtxSMEnable"
CtxSMResume == "CtxSMResume"
CtxSMEnabled == "CtxSMEnabled"
CtxSMResumed == "CtxSMResumed"

SMRank(c) ==
  CASE c = CtxSMInvalid -> 0
    [] c = CtxSMFailed -> 1
    [] c = CtxSMEnable -> 2
    [] c = CtxSMResume -> 3
    [] c = CtxSMEnabled -> 4
    [] c = CtxSMResumed -> 5

SMActive(s) == SMRank(s.m_smContext) >= SMRank(CtxSMEnabled)

ConnectionErrors ==
  { "ConnStreamClosed", "ConnStreamError", "ConnStreamVersionError",
    "ConnParseError", "ConnTlsFailed", "ConnUserDisconnected", "ConnIoError" }

\* the serialized XML the model tells apart
CloseTag == "</stream:stream>"
Header == "<stream:stream>"
Whitespace == " "
StreamErrorXml == "<stream:error>"

\* what a user callback does while it runs
Scripts == { "none", "ping", "stanza" }

-----------------------------------------------------------------------------
(* The state record and the log.                                           *)

St ==
  [ m_connection |-> m_connection, connectionState |-> connectionState,
    m_encryption |-> m_encryption, m_compression |-> m_compression,
    m_encryptionActive |-> m_encryptionActive,
    m_compressionActive |-> m_compressionActive, tlsState |-> tlsState,
    m_smContext |-> m_smContext, m_smSent |-> m_smSent,
    m_smHandled |-> m_smHandled, m_smQueue |-> m_smQueue, smSends |-> smSends,
    m_sid |-> m_sid, m_selectedSaslMech |-> m_selectedSaslMech,
    m_serverSignature |-> m_serverSignature,
    m_authed |-> m_authed, m_resourceBound |-> m_resourceBound,
    m_connectionListeners |-> m_connectionListeners, m_nextId |-> m_nextId,
    issuedIds |-> issuedIds,
    m_iqIDHandlers |-> m_iqIDHandlers, m_iqExtHandlers |-> m_iqExtHandlers,
    m_tagHandlers |-> m_tagHandlers,
    m_iqHandlerMapMutex |-> m_iqHandlerMapMutex,
    notifyThread |-> notifyThread, removeThread |-> removeThread,
    m_iqExtHandlerMapMutex |-> m_iqExtHandlerMapMutex,
    iqRegs |-> iqRegs, deletedHandlers |-> deletedHandlers,
    m_mucInvitationHandler |-> m_mucInvitationHandler,
    m_messageSessions |-> m_messageSessions,
    m_messageSessionHandlerChat |-> m_messageSessionHandlerChat,
    m_messageSessionHandlerNormal |-> m_messageSessionHandlerNormal,
    m_messageSessionHandlerGroupchat |-> m_messageSessionHandlerGroupchat,
    m_messageSessionHandlerHeadline |-> m_messageSessionHandlerHeadline,
    m_messageHandlers |-> m_messageHandlers,
    m_presenceHandlers |-> m_presenceHandlers,
    m_presenceJidHandlers |-> m_presenceJidHandlers,
    m_subscriptionHandlers |-> m_subscriptionHandlers,
    m_streamError |-> m_streamError, m_streamErrorText |-> m_streamErrorText,
    m_streamErrorCData |-> m_streamErrorCData,
    m_streamErrorAppCondition |-> m_streamErrorAppCondition,
    m_availableSaslMechs |-> m_availableSaslMechs,
    m_jid |-> m_jid,
    m_authzid |-> m_authzid,
    m_authcid |-> m_authcid,
    m_password |-> m_password,
    m_gs2Header |-> m_gs2Header,
    m_clientFirstMessageBare |-> m_clientFirstMessageBare,
    saslExchange |-> saslExchange,
    m_presenceExtensions |-> m_presenceExtensions,
    m_stats |-> m_stats,
    trace |-> << >>,
    streamOver |-> streamOver ]

\* the events that end the stream of a connection: the closing tag is
\* handed to the socket, or the connection is closed or cleaned up
EndsStream(ev, xml) ==
  \/ ev = "sock" /\ xml = CloseTag
  \/ ev \in { "connDisconnect", "connCleanup" }

\* an entry without further details
NoInfo == [ none |-> TRUE ]

\* one log entry: what happened (ev), on which data, and the members then
\* (over: the stream of this connection had been closed before); info holds
\* the details of the entries of the dispatch layer
EvInfo(s, ev, xml, layers, reason, n, info) ==
  [ s EXCEPT !.trace = Append(@,
      [ ev |-> ev, xml |-> xml, layers |-> layers, reason |-> reason, n |-> n,
        info |-> info,
        st |-> s.connectionState, conn |-> s.m_connection,
        enc |-> s.m_encryptionActive, comp |-> s.m_compressionActive,
        encImpl |-> s.m_encryption, compImpl |-> s.m_compression,
        sent |-> s.m_smSent, handled |-> s.m_smHandled,
        sm |-> SMActive(s), sid |-> s.m_sid, over |-> s.streamOver,
        idMutex |-> s.m_iqHandlerMapMutex, extMutex |-> s.m_iqExtHandlerMapMutex,
        streamError |-> s.m_streamError ]),
      !.streamOver = @ \/ EndsStream(ev, xml) ]

Ev(s, ev, xml, layers, reason, n) == EvInfo(s, ev, xml, layers, reason, n, NoInfo)

EvI(s, ev, info) == EvInfo(s, ev, "", << >>, "", 0, info)

Commit(r) ==
  /\ r.m_smSent <= MaxSm
  /\ r.m_smHandled <= MaxSm
  /\ Len(r.smSends) <= MaxSmSends
  /\ r.m_nextId <= MaxNextId
  /\ Len(r.iqRegs) <= MaxIqRegs
  /\ Len(r.m_messageSessions) <= MaxSessions
  /\ Len(r.m_messageHandlers) <= MaxHandlerList
  /\ m_connection' = r.m_connection
  /\ connectionState' = r.connectionState
  /\ m_encryption' = r.m_encryption
  /\ m_compression' = r.m_compression
  /\ m_encryptionActive' = r.m_encryptionActive
  /\ m_compressionActive' = r.m_compressionActive
  /\ tlsState' = r.tlsState
  /\ m_smContext' = r.m_smContext
  /\ m_smSent' = r.m_smSent
  /\ m_smHandled' = r.m_smHandled
  /\ m_smQueue' = r.m_smQueue
  /\ smSends' = r.smSends
  /\ m_sid' = r.m_sid
  /\ m_selectedSaslMech' = r.m_selectedSaslMech
  /\ m_serverSignature' = r.m_serverSignature
  /\ m_authed' = r.m_authed
  /\ m_resourceBound' = r.m_resourceBound
  /\ m_connectionListeners' = r.m_connectionListeners
  /\ m_nextId' = r.m_nextId
  /\ issuedIds' = r.issuedIds
  /\ m_iqIDHandlers' = r.m_iqIDHandlers
  /\ m_iqExtHandlers' = r.m_iqExtHandlers
  /\ m_tagHandlers' = r.m_tagHandlers
  /\ m_iqHandlerMapMutex' = r.m_iqHandlerMapMutex
  /\ notifyThread' = r.notifyThread
  /\ removeThread' = r.removeThread
  /\ m_iqExtHandlerMapMutex' = r.m_iqExtHandlerMapMutex
  /\ iqRegs' = r.iqRegs
  /\ deletedHandlers' = r.deletedHandlers
  /\ m_mucInvitationHandler' = r.m_mucInvitationHandler
  /\ m_messageSessions' = r.m_messageSessions
  /\ m_messageSessionHandlerChat' = r.m_messageSessionHandlerChat
  /\ m_messageSessionHandlerNormal' = r.m_messageSessionHandlerNormal
  /\ m_messageSessionHandlerGroupchat' = r.m_messageSessionHandlerGroupchat
  /\ m_messageSessionHandlerHeadline' = r.m_messageSessionHandlerHeadline
  /\ m_messageHandlers' = r.m_messageHandlers
  /\ m_presenceHandlers' = r.m_presenceHandlers
  /\ m_presenceJidHandlers' = r.m_presenceJidHandlers
  /\ m_subscriptionHandlers' = r.m_subscriptionHandlers
  /\ m_streamError' = r.m_streamError
  /\ m_streamErrorText' = r.m_streamErrorText
  /\ m_streamErrorCData' = r.m_streamErrorCData
  /\ m_streamErrorAppCondition' = r.m_streamErrorAppCondition
  /\ m_availableSaslMechs' = r.m_availableSaslMechs
  /\ m_jid' = r.m_jid
  /\ m_authzid' = r.m_authzid
  /\ m_authcid' = r.m_authcid
  /\ m_password' = r.m_password
  /\ m_gs2Header' = r.m_gs2Header
  /\ m_clientFirstMessageBare' = r.m_clientFirstMessageBare
  /\ saslExchange' = r.saslExchange
  /\ m_presenceExtensions' = r.m_presenceExtensions
  /\ m_stats' = r.m_stats
  /\ trace' = r.trace
  /\ streamOver' = r.streamOver

\* the entry point that produced the log, and the members when it was called
Call(s, op, reason, n) == Ev(s, "call", op, << >>, reason, n)

-----------------------------------------------------------------------------
(* Re-entrant calls.  A callback may send, a send may be a step of a       *)
(* disconnect, a disconnect runs callbacks, and the parser ends in all of  *)
(* them: the four are reached through Invoke, defined after the last of    *)
(* them.                                                                   *)

ToSend(xml) == [ method |-> "send", xml |-> xml ]

ToRun(cb) == [ method |-> "callback", cb |-> cb ]

ToDisconnect(reason, cb) == [ method |-> "disconnect", reason |-> reason, cb |-> cb ]

ToParse(d, env) == [ method |-> "parse", d |-> d, env |-> env ]

RECURSIVE Invoke(_, _)

-----------------------------------------------------------------------------
(* The transform chain, outbound.                                          *)
(* Data is the serialized XML plus the stages it went through, innermost   *)
(* first: "Z" for Compression.compress, "T" for TLS.encrypt.               *)

Data(xml) == [ xml |-> xml, layers |-> << >> ]

\* ConnectionBase::send: the bytes are handed to the socket
ConnectionSend(s, d) == Ev(s, "sock", d.xml, d.layers, "", 0)

handleEncryptedData(s, d) ==
  IF s.m_connection
    THEN ConnectionSend(s, d)
    ELSE Ev(s, "chainBroken", d.xml, d.layers, "", 0)

\* TLSBase::encrypt: the output comes back through handleEncryptedData
TLSEncrypt(s, d) ==
  handleEncryptedData(Ev(s, "encrypt", d.xml, d.layers, "", 0),
                      [ d EXCEPT !.layers = Append(@, "T") ])

handleCompressedData(s, d) ==
  IF s.m_encryption /\ s.m_encryptionActive
    THEN TLSEncrypt(s, d)
    ELSE IF s.m_connection
      THEN ConnectionSend(s, d)
      ELSE Ev(s, "chainBroken", d.xml, d.layers, "", 0)

\* CompressionBase::compress: the output comes back through handleCompressedData
Compress(s, d) ==
  handleCompressedData(Ev(s, "compress", d.xml, d.layers, "", 0),
                       [ d EXCEPT !.layers = Append(@, "Z") ])

\* send( const std::string& ) with the stages the other way round
sendXml_EncryptFirst(s, xml) ==
  IF s.m_connection /\ s.connectionState = StateConnected
    THEN LET s1 == Ev(s, "send", xml, << >>, "", 0)
         IN  IF s1.m_encryption /\ s1.m_encryptionActive
               THEN TLSEncrypt(s1, Data(xml))
               ELSE IF s1.m_compression /\ s1.m_compressionActive
                 THEN Compress(s1, Data(xml))
                 ELSE ConnectionSend(s1, Data(xml))
    ELSE Ev(s, "sendDropped", xml, << >>, "", 0)

\* send( const std::string& ) without the test of the connection state
sendXml_AnyState(s, xml) ==
  LET s1 == Ev(s, "send", xml, << >>, "", 0)
  IN  IF s1.m_compression /\ s1.m_compressionActive
        THEN Compress(s1, Data(xml))
        ELSE IF s1.m_encryption /\ s1.m_encryptionActive
          THEN TLSEncrypt(s1, Data(xml))
          ELSE ConnectionSend(s1, Data(xml))

\* ClientBase::send( const std::string& xml )
sendXml(s, xml) ==
  IF s.m_connection /\ s.connectionState = StateConnected
    THEN LET s1 == Ev(s, "send", xml, << >>, "", 0)
         IN  IF s1.m_compression /\ s1.m_compressionActive
               THEN Compress(s1, Data(xml))
               ELSE IF s1.m_encryption /\ s1.m_encryptionActive
                 THEN TLSEncrypt(s1, Data(xml))
                 ELSE ConnectionSend(s1, Data(xml))
    ELSE Ev(s, "sendDropped", xml, << >>, "", 0)

\* std::map::insert: an existing key keeps its value
MapInsert(q, k, v) ==
  IF k \in DOMAIN q
    THEN q
    ELSE [ x \in DOMAIN q \cup { k } |-> IF x = k THEN v ELSE q[x] ]

\* bytes reached the socket between the states s and s1 of one entry point
Transmitted(s, s1) ==
  \E i \in (Len(s.trace) + 1)..Len(s1.trace) : s1.trace[i].ev = "sock"

\* ClientBase::send( Tag* tag, bool queue, bool del )
sendTagQueueDel(s, xml, queue, del) ==
  LET s1 == [ Invoke(s, ToSend(xml)) EXCEPT !.m_stats = TRUE ]
  IN  IF queue /\ SMActive(s1)
        THEN [ s1 EXCEPT !.m_smSent = @ + 1,
                         !.m_smQueue = MapInsert(@, s1.m_smSent + 1,
                                                 [ xml |-> xml, tag |-> Len(s1.smSends) + 1 ]),
                         !.smSends = Append(@, [ key |-> s1.m_smSent + 1, xml |-> xml,
                                                 acked |-> FALSE,
                                                 wire |-> Transmitted(s, s1) ]) ]
        ELSE s1

\* ClientBase::send( Tag* tag )
sendTag(s, xml) == sendTagQueueDel(s, xml, FALSE, TRUE)

\* a stanza send that hands the tag on twice
sendStanza_Twice(s, xml) ==
  sendTagQueueDel(sendTagQueueDel(s, xml, TRUE, FALSE), xml, TRUE, FALSE)

\* ClientBase::send( const IQ& ), send( const Message& ), send( const Presence& ),
\* send( const Subscription& )
sendStanza(s, xml) == sendTagQueueDel(s, xml, TRUE, FALSE)

\* a whitespace ping that switches compression off
whitespacePing_ResetChain(s) ==
  [ Invoke(s, ToSend(Whitespace)) EXCEPT !.m_compressionActive = FALSE ]

\* ClientBase::whitespacePing
whitespacePing(s) == Invoke(s, ToSend(Whitespace))

header(s) == Invoke(s, ToSend(Header))

RECURSIVE CheckQueueFrom(_, _, _, _)
\* the loop of ClientBase::checkQueue over the keys from k on, in key order
CheckQueueFrom(s, handled, resend, k) ==
  IF \A x \in DOMAIN s.m_smQueue : x < k
    THEN s
    ELSE LET key == CHOOSE x \in DOMAIN s.m_smQueue :
                      x >= k /\ \A y \in DOMAIN s.m_smQueue : y >= k => x <= y
         IN  IF key <= handled
               THEN CheckQueueFrom(
                      [ s EXCEPT !.m_smQueue =
                          [ x \in DOMAIN s.m_smQueue \ { key } |-> s.m_smQueue[x] ] ],
                      handled, resend, key + 1)
               ELSE IF resend /\ key > handled
                 THEN CheckQueueFrom(
                        sendTagQueueDel(Ev(s, "resend", s.m_smQueue[key].xml, << >>, "", key),
                                        s.m_smQueue[key].xml, FALSE, FALSE),
                        handled, resend, key + 1)
                 ELSE CheckQueueFrom(s, handled, resend, key + 1)

\* checkQueue that lets the entry with key `handled` through
checkQueue_KeepHandled(s, handled, resend) ==
  IF ~SMActive(s) \/ handled < 0
    THEN s
    ELSE CheckQueueFrom(
           [ s EXCEPT !.smSends =
               [ i \in DOMAIN @ |-> [ @[i] EXCEPT !.acked = @ \/ s.smSends[i].key <= handled ] ] ],
           handled - 1, resend, 0)

\* ClientBase::checkQueue
checkQueue(s, handled, resend) ==
  IF ~SMActive(s) \/ handled < 0
    THEN s
    ELSE CheckQueueFrom(
           [ s EXCEPT !.smSends =
               [ i \in DOMAIN @ |-> [ @[i] EXCEPT !.acked = @ \/ s.smSends[i].key <= handled ] ] ],
           handled, resend, 0)

\* what a user callback (a listener, a handler) does while it runs
RunScript(s, cb) ==
  CASE cb = "none" -> s
    [] cb = "ping" -> whitespacePing(s)
    [] cb = "stanza" -> sendStanza(s, "message")

-----------------------------------------------------------------------------
(* Disconnecting.                                                          *)

\* util::Mutex::lock and unlock of one of the two registry mutexes
Lock(s, mutex) ==
  IF mutex = "m_iqHandlerMapMutex"
    THEN [ s EXCEPT !.m_iqHandlerMapMutex = TRUE ]
    ELSE [ s EXCEPT !.m_iqExtHandlerMapMutex = TRUE ]

Unlock(s, mutex) ==
  IF mutex = "m_iqHandlerMapMutex"
    THEN [ s EXCEPT !.m_iqHandlerMapMutex = FALSE ]
    ELSE [ s EXCEPT !.m_iqExtHandlerMapMutex = FALSE ]

\* ClientBase::registerIqHandler
registerIqHandler(s, ih, exttype) ==
  IF ih = Null
    THEN s
    ELSE LET s1 == Lock(s, "m_iqExtHandlerMapMutex")
         IN  Unlock(IF \E i \in DOMAIN s1.m_iqExtHandlers :
                         s1.m_iqExtHandlers[i] = [ ext |-> exttype, ih |-> ih ]
                      THEN s1
                      ELSE [ s1 EXCEPT !.m_iqExtHandlers =
                               Append(@, [ ext |-> exttype, ih |-> ih ]) ],
                    "m_iqExtHandlerMapMutex")

\* ClientBase::removeIqHandler
removeIqHandler(s, ih, exttype) ==
  IF ih = Null
    THEN s
    ELSE Unlock([ Lock(s, "m_iqExtHandlerMapMutex") EXCEPT !.m_iqExtHandlers =
                    SelectSeq(@, LAMBDA e : e # [ ext |-> exttype, ih |-> ih ]) ],
                "m_iqExtHandlerMapMutex")

\* ClientBase::registerTagHandler
registerTagHandler(s, th, tag, xmlns) ==
  IF th # Null /\ tag # ""
    THEN [ s EXCEPT !.m_tagHandlers = Append(@, [ tag |-> tag, xmlns |-> xmlns, th |-> th ]) ]
    ELSE s

\* ClientBase::removeTagHandler
removeTagHandler(s, th, tag, xmlns) ==
  IF th # Null
    THEN [ s EXCEPT !.m_tagHandlers =
             SelectSeq(@, LAMBDA e : e # [ tag |-> tag, xmlns |-> xmlns, th |-> th ]) ]
    ELSE s

\* ClientBase::registerPresenceHandler( PresenceHandler* )
registerPresenceHandler(s, ph) ==
  IF ph # Null THEN [ s EXCEPT !.m_presenceHandlers = Append(@, ph) ] ELSE s

\* a removal that erases the first entry equal to ph only
removePresenceHandler_First(s, ph) ==
  LET l == s.m_presenceHandlers
      at == { i \in DOMAIN l : l[i] = ph }
  IN  IF ph # Null /\ at # { }
        THEN LET k == CHOOSE i \in at : \A j \in at : i <= j
             IN  [ s EXCEPT !.m_presenceHandlers = SubSeq(l, 1, k - 1) \o SubSeq(l, k + 1, Len(l)) ]
        ELSE s

\* ClientBase::removePresenceHandler( PresenceHandler* ): std::list::remove
removePresenceHandler(s, ph) ==
  IF ph # Null
    THEN [ s EXCEPT !.m_presenceHandlers = SelectSeq(@, LAMBDA x : x # ph) ]
    ELSE s

\* ClientBase::registerPresenceHandler( const JID&, PresenceHandler* ): the
\* bare JID is stored; an empty JID is no JID
registerPresenceJidHandler(s, jid, ph) ==
  IF ph # Null /\ jid.bare # ""
    THEN [ s EXCEPT !.m_presenceJidHandlers = Append(@, [ jid |-> jid.bare, ph |-> ph ]) ]
    ELSE s

\* ClientBase::removePresenceHandler( const JID&, PresenceHandler* ): a null
\* handler stands for every handler of the JID
removePresenceJidHandler(s, jid, ph) ==
  [ s EXCEPT !.m_presenceJidHandlers =
      SelectSeq(@, LAMBDA t : ~((ph = Null \/ t.ph = ph) /\ t.jid = jid.bare)) ]

\* ClientBase::registerSubscriptionHandler
registerSubscriptionHandler(s, sh) ==
  IF sh # Null THEN [ s EXCEPT !.m_subscriptionHandlers = Append(@, sh) ] ELSE s

\* ClientBase::removeSubscriptionHandler: std::list::remove
removeSubscriptionHandler(s, sh) ==
  IF sh # Null
    THEN [ s EXCEPT !.m_subscriptionHandlers = SelectSeq(@, LAMBDA x : x # sh) ]
    ELSE s

\* ClientBase::removePresenceExtension: the first extension of the type is
\* deleted and erased
removePresenceExtension(s, type) ==
  LET hits == { i \in DOMAIN s.m_presenceExtensions : s.m_presenceExtensions[i] = type }
  IN  IF hits = { }
        THEN s
        ELSE LET k == CHOOSE i \in hits : \A j \in hits : i <= j
             IN  [ s EXCEPT !.m_presenceExtensions =
                     SubSeq(@, 1, k - 1) \o SubSeq(@, k + 1, Len(@)) ]

\* ClientBase::addPresenceExtension: an extension of the same type is
\* replaced; se is the type of the extension, Null for a null pointer
addPresenceExtension(s, se) ==
  IF se = Null
    THEN s
    ELSE [ removePresenceExtension(s, se) EXCEPT !.m_presenceExtensions = Append(@, se) ]

\* ClientBase::cleanup is virtual and empty in the base; the Client layer
\* resets the negotiation results
cleanup(s) ==
  Ev([ s EXCEPT !.m_authed = FALSE, !.m_resourceBound = FALSE ],
     "cleanup", "", << >>, "", 0)

\* init without the reset of the statistics
init_KeepStats(s) ==
  cleanup([ registerIqHandler(Ev(s, "init", "", << >>, "", 0), This, ExtPing)
              EXCEPT !.m_streamError = StreamErrorUndefined ])

\* ClientBase::init, as notifyOnDisconnect calls it
init(s) ==
  cleanup([ registerIqHandler(Ev(s, "init", "", << >>, "", 0), This, ExtPing)
              EXCEPT !.m_streamError = StreamErrorUndefined, !.m_stats = FALSE ])

RECURSIVE ForEachOnDisconnect(_, _, _, _)
\* util::ForEach( m_connectionListeners, &ConnectionListener::onDisconnect, e )
ForEachOnDisconnect(s, e, cb, i) ==
  IF i > Len(s.m_connectionListeners)
    THEN s
    ELSE ForEachOnDisconnect(
           Invoke(Ev(s, "onDisconnect", "", << >>, e, s.m_connectionListeners[i]), ToRun(cb)),
           e, cb, i + 1)

\* notifyOnDisconnect with the reset before the listeners
notifyOnDisconnect_InitFirst(s, e, cb) == ForEachOnDisconnect(init(s), e, cb, 1)

\* ClientBase::notifyOnDisconnect
notifyOnDisconnect(s, e, cb) == init(ForEachOnDisconnect(s, e, cb, 1))

\* ConnectionBase::disconnect and ConnectionBase::cleanup
ConnectionDisconnect(s) ==
  Ev([ s EXCEPT !.connectionState = StateDisconnected ], "connDisconnect", "", << >>, "", 0)

ConnectionCleanup(s) ==
  Ev([ s EXCEPT !.connectionState = StateDisconnected ], "connCleanup", "", << >>, "", 0)

\* TLSBase::cleanup and CompressionBase::cleanup
EncryptionCleanup(s) ==
  IF s.m_encryption
    THEN Ev([ s EXCEPT !.tlsState = "idle" ], "encCleanup", "", << >>, "", 0)
    ELSE s

CompressionCleanup(s) ==
  IF s.m_compression THEN Ev(s, "compCleanup", "", << >>, "", 0) ELSE s

\* ClientBase::handleDisconnect
handleDisconnect(s0, reason, cb) ==
  LET s == Ev(s0, "handleDisconnect", "", << >>, reason, 0)
      s1 == IF s.m_connection THEN ConnectionCleanup(s) ELSE s
      s2 == CompressionCleanup(EncryptionCleanup(s1))
      s3 == [ s2 EXCEPT !.m_encryptionActive = FALSE, !.m_compressionActive = FALSE ]
  IN  notifyOnDisconnect(s3, reason, cb)

\* disconnect( reason ) with the closing tag for every reason
disconnect_CloseAlways(s0, reason, cb) ==
  LET s == Ev(s0, "disconnect", "", << >>, reason, 0)
  IN
  IF ~s.m_connection \/ StateRank(s.connectionState) < StateRank(StateConnecting)
    THEN s
    ELSE LET s1 == Invoke(s, ToSend(CloseTag))
             s2 == ConnectionCleanup(ConnectionDisconnect(s1))
             s3 == CompressionCleanup(EncryptionCleanup(s2))
             s4 == [ s3 EXCEPT !.m_encryptionActive = FALSE,
                               !.m_compressionActive = FALSE,
                               !.m_smSent = 0 ]
         IN  notifyOnDisconnect(s4, reason, cb)

\* ClientBase::disconnect( ConnectionError reason )
disconnect(s0, reason, cb) ==
  LET s == Ev(s0, "disconnect", "", << >>, reason, 0)
  IN
  IF ~s.m_connection \/ StateRank(s.connectionState) < StateRank(StateConnecting)
    THEN s
    ELSE LET s1 == IF reason # "ConnTlsFailed" THEN Invoke(s, ToSend(CloseTag)) ELSE s
             s2 == ConnectionCleanup(ConnectionDisconnect(s1))
             s3 == CompressionCleanup(EncryptionCleanup(s2))
             s4 == [ s3 EXCEPT !.m_encryptionActive = FALSE,
                               !.m_compressionActive = FALSE,
                               !.m_smSent = 0 ]
         IN  notifyOnDisconnect(s4, reason, cb)

-----------------------------------------------------------------------------
(* Stream open.                                                            *)

\* XMPP_STREAM_VERSION_MAJOR
XmppStreamVersionMajor == 1

VerChars == { "0", "1", "2", ".", "x" }

DigitValue(c) == CASE c = "0" -> 0 [] c = "1" -> 1 [] c = "2" -> 2 [] OTHER -> -1

RECURSIVE AtoiFrom(_, _, _)
\* atoi: the value of the leading decimal digits (0 when there are none)
AtoiFrom(str, i, acc) ==
  IF i > Len(str) \/ DigitValue(str[i]) < 0
    THEN acc
    ELSE AtoiFrom(str, i + 1, 10 * acc + DigitValue(str[i]))

atoi(str) == AtoiFrom(str, 1, 0)

\* std::string::find( '.' ): the 0-based position, or -1 for npos
FindDot(str) ==
  IF \E i \in 1..Len(str) : str[i] = "."
    THEN (CHOOSE i \in 1..Len(str) : str[i] = "." /\ \A j \in 1..(i - 1) : str[j] # ".") - 1
    ELSE -1

\* checkStreamVersion with the comparison the other way round
checkStreamVersion_AtLeast(version) ==
  IF version = << >>
    THEN FALSE
    ELSE LET dot == FindDot(version)
             major == IF version # << >> /\ dot # 0 /\ dot # -1
                        THEN atoi(SubSeq(version, 1, dot))
                        ELSE 0
         IN  major >= XmppStreamVersionMajor

\* ClientBase::checkStreamVersion
checkStreamVersion(version) ==
  IF version = << >>
    THEN FALSE
    ELSE LET dot == FindDot(version)
             major == IF version # << >> /\ dot # 0 /\ dot # -1
                        THEN atoi(SubSeq(version, 1, dot))
                        ELSE 0
         IN  XmppStreamVersionMajor >= major

-----------------------------------------------------------------------------
(* Inbound tags.                                                           *)

XMLNS_STREAM == "http://etherx.jabber.org/streams"
XMLNS_XMPP_STREAM == "urn:ietf:params:xml:ns:xmpp-streams"
XMLNS_CLIENT == "jabber:client"

\* a JID: the bare part and the resource
JID(bare, resource) == [ bare |-> bare, resource |-> resource ]
NoJID == JID("", "")

\* exts: the types of the children a registered StanzaExtension parses, in
\* document order; mucOp: the operation of the MUC user child, if any
NoTag ==
  [ null |-> FALSE, name |-> "", xmlns |-> "", version |-> << >>, id |-> << >>,
    type |-> "", from |-> NoJID, exts |-> << >>, thread |-> "", mucOp |-> "",
    children |-> << >> ]

\* the parser reports the end of the stream as a null Tag
NullTag == [ NoTag EXCEPT !.null = TRUE ]

StreamTag(version, id) ==
  [ NoTag EXCEPT !.name = "stream", !.xmlns = XMLNS_STREAM, !.version = version, !.id = id ]

PlainTag(name, xmlns, type) ==
  [ NoTag EXCEPT !.name = name, !.xmlns = xmlns, !.type = type ]

\* what the environment decides while one entry point runs: what the user
\* callbacks do (cb) and which listeners reject the certificate (reject)
\* and which IqHandlers return true from handleIq (accept)
Env(cb, reject) == [ cb |-> cb, reject |-> reject, accept |-> { } ]
EnvIq(cb, accept) == [ cb |-> cb, reject |-> { }, accept |-> accept ]

\* ClientBase::handleStartNode is pure virtual: the Client layer's hook
handleStartNode(s, tag) == Ev(s, "handleStartNode", tag.name, << >>, "", 0)

\* a child of <stream:error>: its name, the value of its xmlns attribute
\* ("" when it has none), its xml:lang attribute and its character data
Child(name, xmlns, lang, cdata) ==
  [ name |-> name, xmlns |-> xmlns, lang |-> lang, cdata |-> cdata ]

\* the names handleStreamError knows, and the StreamError of each
StreamErrorOf ==
  "bad-format" :> "StreamErrorBadFormat"
    @@ "bad-namespace-prefix" :> "StreamErrorBadNamespacePrefix"
    @@ "conflict" :> "StreamErrorConflict"
    @@ "connection-timeout" :> "StreamErrorConnectionTimeout"
    @@ "host-gone" :> "StreamErrorHostGone"
    @@ "host-unknown" :> "StreamErrorHostUnknown"
    @@ "improper-addressing" :> "StreamErrorImproperAddressing"
    @@ "internal-server-error" :> "StreamErrorInternalServerError"
    @@ "invalid-from" :> "StreamErrorInvalidFrom"
    @@ "invalid-id" :> "StreamErrorInvalidId"
    @@ "invalid-namespace" :> "StreamErrorInvalidNamespace"
    @@ "invalid-xml" :> "StreamErrorInvalidXml"
    @@ "not-authorized" :> "StreamErrorNotAuthorized"
    @@ "policy-violation" :> "StreamErrorPolicyViolation"
    @@ "remote-connection-failed" :> "StreamErrorRemoteConnectionFailed"
    @@ "resource-constraint" :> "StreamErrorResourceConstraint"
    @@ "restricted-xml" :> "StreamErrorRestrictedXml"
    @@ "see-other-host" :> "StreamErrorSeeOtherHost"
    @@ "system-shutdown" :> "StreamErrorSystemShutdown"
    @@ "undefined-condition" :> "StreamErrorUndefinedCondition"
    @@ "unsupported-encoding" :> "StreamErrorUnsupportedEncoding"
    @@ "unsupported-stanza-type" :> "StreamErrorUnsupportedStanzaType"
    @@ "unsupported-version" :> "StreamErrorUnsupportedVersion"
    @@ "not-well-formed" :> "StreamErrorXmlNotWellFormed"

\* tag->findChild( name )->cdata(): the first child of that name
FindChildCData(tag, name) ==
  LET at == { i \in DOMAIN tag.children : tag.children[i].name = name }
  IN  tag.children[CHOOSE i \in at : \A j \in at : i <= j].cdata

\* one turn of the loop of handleStreamError, for the child `it`; r is the
\* state and the local `err`
StreamErrorChild(r, tag, it) ==
  LET s == r.s
      r1 == IF it.name \in DOMAIN StreamErrorOf
              THEN [ s |-> IF it.name = "see-other-host"
                             THEN [ s EXCEPT !.m_streamErrorCData =
                                               FindChildCData(tag, "see-other-host") ]
                             ELSE s,
                     err |-> StreamErrorOf[it.name] ]
            ELSE IF it.name = "text"
              THEN [ r EXCEPT !.s.m_streamErrorText =
                       LET lang == IF it.lang # "" THEN it.lang ELSE "default"
                       IN  [ l \in DOMAIN @ \cup { lang } |->
                               IF l = lang THEN it.cdata ELSE @[l] ] ]
            ELSE [ r EXCEPT !.s.m_streamErrorAppCondition = it.name ]
  IN  IF r1.err # StreamErrorUndefined /\ it.xmlns = XMLNS_XMPP_STREAM
        THEN [ r1 EXCEPT !.s.m_streamError = r1.err ]
        ELSE r1

RECURSIVE StreamErrorFrom(_, _, _)
\* for( ; it != c.end(); ++it )
StreamErrorFrom(r, tag, i) ==
  IF i > Len(tag.children)
    THEN r
    ELSE StreamErrorFrom(StreamErrorChild(r, tag, tag.children[i]), tag, i + 1)

\* ClientBase::handleStreamError
handleStreamError(s, tag) ==
  StreamErrorFrom([ s |-> EvInfo(s, "handleStreamError", tag.name, << >>, "", 0,
                                 [ tag |-> tag, text |-> s.m_streamErrorText ]),
                    err |-> StreamErrorUndefined ],
                  tag, 1).s

\* the tags ClientBase::handleNormalNode (pure virtual, the Client layer's
\* negotiation hook) consumes
NormalNodeConsumes(tag) ==
  \/ tag.name = "features" /\ tag.xmlns = XMLNS_STREAM
  \/ tag.name = "proceed" /\ tag.xmlns = "urn:ietf:params:xml:ns:xmpp-tls"
  \/ tag.name = "compressed" /\ tag.xmlns = "http://jabber.org/protocol/compress"
  \/ tag.name = "enabled" /\ tag.xmlns = "urn:xmpp:sm:3"

\* ... and what it does with them: <proceed/> starts the TLS handshake with
\* encryption switched on, <compressed/> switches compression on and re-opens
\* the stream, <enabled/> switches stream management on
handleNormalNode(s0, tag) ==
  LET s == Ev(s0, "handleNormalNode", tag.name, << >>, "", 0)
  IN  CASE tag.name = "proceed" ->
             IF s.m_encryption
               THEN Ev([ s EXCEPT !.m_encryptionActive = TRUE, !.tlsState = "handshaking" ],
                       "handshake", "", << >>, "", 0)
               ELSE s
        [] tag.name = "compressed" ->
             header([ s EXCEPT !.m_compressionActive = TRUE ])
        [] tag.name = "enabled" ->
             [ s EXCEPT !.m_smContext = CtxSMEnabled ]
        [] OTHER -> s

-----------------------------------------------------------------------------
(* IQ dispatch.                                                            *)

IqSubtypes == { "get", "set", "result", "error" }

\* IQ::IQ( Tag* ) with the extensions the factory adds
IqOfTag(tag) ==
  [ subtype |-> IF tag.type \in IqSubtypes THEN tag.type ELSE "invalid",
    id |-> tag.id, from |-> tag.from, to |-> NoJID, exts |-> tag.exts,
    error |-> "" ]

\* IQ::IQ( IqType, const JID& to, const std::string& id )
NewIq(subtype, to, id) ==
  [ subtype |-> subtype, id |-> id, from |-> NoJID, to |-> to, exts |-> << >>,
    error |-> "" ]

HexDigits ==
  << "0", "1", "2", "3", "4", "5", "6", "7", "8", "9", "a", "b", "c", "d", "e", "f" >>

\* "%08x" of a non-negative int
Hex8(n) == [ i \in 1..8 |-> HexDigits[((n \div (16 ^ (8 - i))) % 16) + 1] ]

\* getID that reads the counter without incrementing it
getID_NoIncrement(s) ==
  [ s |-> [ s EXCEPT !.issuedIds = Append(@, << "uniqueBaseId" >> \o Hex8(s.m_nextId)) ],
    id |-> << "uniqueBaseId" >> \o Hex8(s.m_nextId) ]

getID(s) ==
  [ s |-> [ s EXCEPT !.m_nextId = @ + 1,
                     !.issuedIds = Append(@, << "uniqueBaseId" >> \o Hex8(s.m_nextId + 1)) ],
    id |-> << "uniqueBaseId" >> \o Hex8(s.m_nextId + 1) ]

\* ClientBase::send( const IQ& )
sendIq(s, iq) == sendStanza(EvI(s, "sendIq", [ iq |-> iq ]), "iq")

\* m_iqIDHandlers[id] = track
MapAssign(q, k, v) == [ x \in DOMAIN q \cup { k } |-> IF x = k THEN v ELSE q[x] ]

\* an erase that leaves the entry in place
MapErase_Keep(q, k) == q

\* std::map::erase
MapErase(q, k) == [ x \in DOMAIN q \ { k } |-> q[x] ]

\* the history of a tracked send: fired counts its handleIqID calls
NewReg(id, ih, context) ==
  [ id |-> id, ih |-> ih, context |-> context, fired |-> 0, removed |-> FALSE,
    replaced |-> FALSE ]

\* no thread is between the find and the erase of notifyIqHandlers; valid:
\* it_id still points into m_iqIDHandlers
NotifyIdle ==
  [ pc |-> "idle", iq |-> NewIq("result", NoJID, << >>),
    track |-> [ ih |-> Null, context |-> 0, del |-> FALSE, reg |-> 0 ],
    valid |-> TRUE, calledRemoved |-> FALSE, erasedTwice |-> FALSE ]

\* a tracked send that tracks every subtype
sendIqTracked_AnySubtype(s, iq, ih, context, del) ==
  IF ih # Null
    THEN LET g == IF iq.id = << >> THEN getID(s) ELSE [ s |-> s, id |-> iq.id ]
             old == g.s.m_iqIDHandlers
             reg == Len(g.s.iqRegs) + 1
             track == [ ih |-> ih, context |-> context, del |-> del, reg |-> reg ]
             regs == IF g.id \in DOMAIN old
                       THEN [ g.s.iqRegs EXCEPT ![old[g.id].reg].replaced = TRUE ]
                       ELSE g.s.iqRegs
         IN  sendIq([ g.s EXCEPT !.m_iqIDHandlers = MapAssign(@, g.id, track),
                                 !.iqRegs = Append(regs, NewReg(g.id, ih, context)),
                                 !.removeThread.returned = @ \ { ih } ],
                    [ iq EXCEPT !.id = g.id ])
    ELSE sendIq(s, iq)

\* ClientBase::send( IQ& iq, IqHandler* ih, int context, bool del )
sendIqTracked(s, iq, ih, context, del) ==
  IF ih # Null /\ iq.subtype \in { "set", "get" }
    THEN LET g == IF iq.id = << >> THEN getID(s) ELSE [ s |-> s, id |-> iq.id ]
             old == g.s.m_iqIDHandlers
             reg == Len(g.s.iqRegs) + 1
             track == [ ih |-> ih, context |-> context, del |-> del, reg |-> reg ]
             regs == IF g.id \in DOMAIN old
                       THEN [ g.s.iqRegs EXCEPT ![old[g.id].reg].replaced = TRUE ]
                       ELSE g.s.iqRegs
         IN  sendIq([ g.s EXCEPT !.m_iqIDHandlers = MapAssign(@, g.id, track),
                                 !.iqRegs = Append(regs, NewReg(g.id, ih, context)),
                                 !.removeThread.returned = @ \ { ih } ],
                    [ iq EXCEPT !.id = g.id ])
    ELSE sendIq(s, iq)

\* ClientBase::removeIDHandler
removeIDHandler(s, ih) ==
  LET gone == { id \in DOMAIN s.m_iqIDHandlers : s.m_iqIDHandlers[id].ih = ih }
  IN  [ s EXCEPT
        !.m_iqIDHandlers = [ id \in DOMAIN @ \ gone |-> @[id] ],
        !.notifyThread.valid = @ /\ s.notifyThread.iq.id \notin gone,
        !.iqRegs = [ r \in DOMAIN @ |->
                     IF \E id \in gone : s.m_iqIDHandlers[id].reg = r
                       THEN [ @[r] EXCEPT !.removed = TRUE ]
                       ELSE @[r] ] ]

\* an equal_range that yields the handlers last to first
EqualRange_Reversed(handlers, exttype) ==
  LET sel == SelectSeq(handlers, LAMBDA e : e.ext = exttype)
  IN  [ i \in DOMAIN sel |-> sel[Len(sel) + 1 - i].ih ]

\* m_iqExtHandlers.equal_range( exttype ): the handlers in insertion order
EqualRange(handlers, exttype) ==
  LET sel == SelectSeq(handlers, LAMBDA e : e.ext = exttype)
  IN  [ i \in DOMAIN sel |-> sel[i].ih ]

\* a built-in handler that answers a ping of every subtype
handleIq_AnySubtype(s, iq) ==
  LET p == \E i \in DOMAIN iq.exts : iq.exts[i] = ExtPing
      s1 == EvI(s, "handleIq", [ ih |-> This, iq |-> iq, ret |-> p ])
  IN  IF ~p
        THEN [ s |-> s1, handled |-> FALSE ]
        ELSE [ s |-> sendIq(s1, NewIq("result", iq.from, iq.id)), handled |-> TRUE ]

\* ClientBase::handleIq: the built-in answer to a ping
handleIq(s, iq) ==
  LET p == \E i \in DOMAIN iq.exts : iq.exts[i] = ExtPing
      s1 == EvI(s, "handleIq", [ ih |-> This, iq |-> iq,
                                 ret |-> p /\ iq.subtype = "get" ])
  IN  IF ~p \/ iq.subtype # "get"
        THEN [ s |-> s1, handled |-> FALSE ]
        ELSE [ s |-> sendIq(s1, NewIq("result", iq.from, iq.id)), handled |-> TRUE ]

\* (*it).second->handleIq( iq ): the ClientBase itself or a user's handler
CallHandleIq(s, ih, iq, env) ==
  IF ih = This
    THEN handleIq(s, iq)
    ELSE [ s |-> Invoke(EvI(s, "handleIq", [ ih |-> ih, iq |-> iq,
                                             ret |-> ih \in env.accept ]),
                        ToRun(env.cb)),
           handled |-> ih \in env.accept ]

RECURSIVE AskHandlers(_, _, _, _, _)
\* the inner loop of notifyIqHandlers: the handlers of one extension type
AskHandlers(r, iq, hs, i, env) ==
  IF r.handled \/ i > Len(hs)
    THEN r
    ELSE AskHandlers(CallHandleIq(r.s, hs[i], iq, env), iq, hs, i + 1, env)

RECURSIVE AskExtensions(_, _, _, _)
\* the outer loop of notifyIqHandlers: the extensions of the IQ
AskExtensions(r, iq, j, env) ==
  IF r.handled \/ j > Len(iq.exts)
    THEN r
    ELSE AskExtensions(
           AskHandlers(r, iq, EqualRange(r.s.m_iqExtHandlers, iq.exts[j]), 1, env),
           iq, j + 1, env)

\* the error reply of notifyIqHandlers
ErrorReply(iq, error) ==
  [ NewIq("error", iq.from, iq.id) EXCEPT !.exts = << ExtError >>, !.error = error ]

\* an error for every subtype
NeedsReply_Always(iq) == TRUE

\* the subtypes notifyIqHandlers answers with an error
NeedsReply(iq) == iq.subtype = "get" \/ iq.subtype = "set"

\* (*it_id).second.ih->handleIqID( iq, (*it_id).second.context )
handleIqID(s, track, iq, env) ==
  Invoke(
    EvI([ s EXCEPT !.iqRegs[track.reg].fired = @ + 1 ], "handleIqID",
        [ ih |-> track.ih, iq |-> iq, context |-> track.context, reg |-> track.reg,
          dangling |-> track.ih \in s.deletedHandlers ]),
    ToRun(env.cb))

\* delete (*it_id).second.ih
deleteHandler(s, ih) ==
  EvI([ s EXCEPT !.deletedHandlers = @ \cup { ih } ], "deleteHandler", [ ih |-> ih ])

\* m_iqIDHandlers.erase( it_id )
EraseLocked(s, id) == [ s EXCEPT !.m_iqIDHandlers = MapErase(@, id) ]

\* the id-handler branch of notifyIqHandlers: call, delete, erase
FireIdHandler(s, iq, env) ==
  LET track == s.m_iqIDHandlers[iq.id]
      s1 == handleIqID(s, track, iq, env)
      s2 == IF track.del THEN deleteHandler(s1, track.ih) ELSE s1
  IN  Unlock(EraseLocked(Lock(s2, "m_iqHandlerMapMutex"), iq.id), "m_iqHandlerMapMutex")

\* ClientBase::notifyIqHandlers
notifyIqHandlers(s0, iq, env) ==
  LET s == Unlock(EvI(Lock(s0, "m_iqHandlerMapMutex"), "notifyIqHandlers", [ iq |-> iq ]),
                  "m_iqHandlerMapMutex")
      haveIdHandler == iq.id \in DOMAIN s.m_iqIDHandlers
  IN  IF haveIdHandler /\ (iq.subtype = "result" \/ iq.subtype = "error")
        THEN FireIdHandler(s, iq, env)
      ELSE IF iq.exts = << >>
        THEN IF NeedsReply(iq)
               THEN sendIq(s, ErrorReply(iq, "feature-not-implemented"))
               ELSE s
      ELSE LET r == AskExtensions([ s |-> Lock(s, "m_iqExtHandlerMapMutex"),
                                    handled |-> FALSE ], iq, 1, env)
               s1 == Unlock(r.s, "m_iqExtHandlerMapMutex")
           IN  IF ~r.handled /\ NeedsReply(iq)
                 THEN sendIq(s1, ErrorReply(iq, "service-unavailable"))
                 ELSE s1

\* notifyIqHandlers up to the unlock of line 1610: the find under the mutex
NotifyFind(s0, iq) ==
  LET s == Unlock(EvI(Lock(s0, "m_iqHandlerMapMutex"), "notifyIqHandlers", [ iq |-> iq ]),
                  "m_iqHandlerMapMutex")
  IN  [ s EXCEPT !.notifyThread =
          [ @ EXCEPT !.pc = "found", !.iq = iq, !.track = s.m_iqIDHandlers[iq.id],
                     !.valid = TRUE ] ]

\* line 1613, (*it_id).second.ih->handleIqID: through an iterator whose
\* element was erased the read is undefined; it yields the TrackStruct as
\* it was found, or the process dies
NotifyCall(s, outcome, env) ==
  LET nt == s.notifyThread
      track == IF nt.valid THEN s.m_iqIDHandlers[nt.iq.id] ELSE nt.track
  IN  IF ~nt.valid /\ outcome = "crash"
        THEN [ s EXCEPT !.notifyThread.pc = "crashed" ]
        ELSE LET s1 == handleIqID(s, track, nt.iq, env)
                 s2 == IF track.del THEN deleteHandler(s1, track.ih) ELSE s1
             IN  [ s2 EXCEPT !.notifyThread.pc = "called",
                             !.notifyThread.calledRemoved =
                                @ \/ track.ih \in s.removeThread.returned ]

\* lines 1616-1618, m_iqIDHandlers.erase( it_id ) under the mutex: the erase
\* of an element that is gone is undefined; the map stays as it is, or the
\* process dies
NotifyErase(s, outcome) ==
  LET nt == s.notifyThread
      s1 == Lock(s, "m_iqHandlerMapMutex")
  IN  IF nt.valid
        THEN [ Unlock(EraseLocked(s1, nt.iq.id), "m_iqHandlerMapMutex")
                 EXCEPT !.notifyThread.pc = "idle" ]
        ELSE [ Unlock(s1, "m_iqHandlerMapMutex")
                 EXCEPT !.notifyThread.pc = IF outcome = "crash" THEN "crashed" ELSE "idle",
                        !.notifyThread.erasedTwice = TRUE ]

-----------------------------------------------------------------------------
(* Message dispatch.                                                       *)

MessageSubtypes == { "Chat", "Error", "Groupchat", "Headline", "Normal", "Invalid" }

\* Message::Message( Tag* ): no type attribute is a normal message
MessageOfTag(tag) ==
  [ subtype |-> CASE tag.type = "chat" -> "Chat"
                  [] tag.type = "error" -> "Error"
                  [] tag.type = "groupchat" -> "Groupchat"
                  [] tag.type = "headline" -> "Headline"
                  [] tag.type = "normal" \/ tag.type = "" -> "Normal"
                  [] OTHER -> "Invalid",
    from |-> tag.from, thread |-> tag.thread, exts |-> tag.exts,
    mucOp |-> tag.mucOp ]

\* a MessageSession: types is the set of subtypes in its bit mask
Session(target, threadID, honorThreadID, types) ==
  [ target |-> target, threadID |-> threadID, honorThreadID |-> honorThreadID,
    types |-> types ]

\* a match that does not look at the type mask
SessionMatches_IgnoreTypes(session, msg) ==
  \/ msg.thread = ""
  \/ session.threadID = msg.thread
  \/ ~session.honorThreadID

\* the part of the two scans in notifyMessageHandlers that is the same
SessionMatches(session, msg) ==
  /\ \/ msg.thread = ""
     \/ session.threadID = msg.thread
     \/ ~session.honorThreadID
  /\ \/ msg.subtype \in session.types
     \/ session.types = { }

\* one scan of m_messageSessions: the first session it stops at, 0 for none
FirstSession(sessions, msg, full) ==
  LET hit(i) == /\ IF full THEN sessions[i].target = msg.from
                           ELSE sessions[i].target.bare = msg.from.bare
                /\ SessionMatches(sessions[i], msg)
  IN  IF \E i \in DOMAIN sessions : hit(i)
        THEN CHOOSE i \in DOMAIN sessions : hit(i) /\ \A j \in 1..(i - 1) : ~hit(j)
        ELSE 0

\* MessageSession::handleMessage, on the session at index i of the list
SessionHandleMessage(s, i, msg, env) ==
  Invoke(EvI(s, "sessionHandleMessage", [ session |-> i, msg |-> msg ]), ToRun(env.cb))

\* the switch of notifyMessageHandlers over the subtype
SessionHandlerFor(s, msg) ==
  CASE msg.subtype = "Chat" -> s.m_messageSessionHandlerChat
    [] msg.subtype = "Normal" -> s.m_messageSessionHandlerNormal
    [] msg.subtype = "Groupchat" -> s.m_messageSessionHandlerGroupchat
    [] msg.subtype = "Headline" -> s.m_messageSessionHandlerHeadline
    [] OTHER -> Null

\* ClientBase::registerMessageSession
registerMessageSession(s, session) ==
  [ s EXCEPT !.m_messageSessions = Append(@, session) ]

RECURSIVE ForEachHandleMessage(_, _, _, _)
\* the loop over m_messageHandlers
ForEachHandleMessage(s, msg, env, i) ==
  IF i > Len(s.m_messageHandlers)
    THEN s
    ELSE ForEachHandleMessage(
           Invoke(EvI(s, "handleMessage", [ mh |-> s.m_messageHandlers[i], msg |-> msg ]),
                  ToRun(env.cb)),
           msg, env, i + 1)

\* a new MessageSession and the global handlers as well
NewSessionOrFanOut_Both(s, msg, env) ==
  LET msHandler == SessionHandlerFor(s, msg)
      s1 == registerMessageSession(s, Session(msg.from, "", TRUE, { msg.subtype }))
      s2 == Invoke(EvI(s1, "handleMessageSession",
                          [ msh |-> msHandler, session |-> Len(s1.m_messageSessions) ]),
                    ToRun(env.cb))
  IN  IF msHandler # Null
        THEN ForEachHandleMessage(
               SessionHandleMessage(s2, Len(s1.m_messageSessions), msg, env), msg, env, 1)
        ELSE ForEachHandleMessage(s, msg, env, 1)

\* the end of notifyMessageHandlers: a new MessageSession, which registers
\* itself with the ClientBase, for the handler of the subtype, or else the
\* global handlers
NewSessionOrFanOut(s, msg, env) ==
  LET msHandler == SessionHandlerFor(s, msg)
  IN  IF msHandler # Null
        THEN LET s1 == registerMessageSession(
                         s, Session(msg.from, "", TRUE, { msg.subtype }))
                 s2 == Invoke(EvI(s1, "handleMessageSession",
                                     [ msh |-> msHandler,
                                       session |-> Len(s1.m_messageSessions) ]),
                    ToRun(env.cb))
             IN  SessionHandleMessage(s2, Len(s1.m_messageSessions), msg, env)
        ELSE ForEachHandleMessage(s, msg, env, 1)

\* ClientBase::notifyMessageHandlers
notifyMessageHandlers(s0, msg, env) ==
  LET s == EvI(s0, "notifyMessageHandlers", [ msg |-> msg ])
      mu == \E i \in DOMAIN msg.exts : msg.exts[i] = ExtMUCUser
      full == FirstSession(s.m_messageSessions, msg, TRUE)
      bare == FirstSession(s.m_messageSessions, msg, FALSE)
  IN  IF s.m_mucInvitationHandler # Null /\ mu /\ msg.mucOp = "OpInviteFrom"
        THEN Invoke(EvI(s, "handleMUCInvitation",
                           [ mih |-> s.m_mucInvitationHandler, msg |-> msg ]),
                    ToRun(env.cb))
      ELSE IF full # 0
        THEN SessionHandleMessage(s, full, msg, env)
      ELSE IF bare # 0
        THEN SessionHandleMessage(s, bare, msg, env)
      ELSE NewSessionOrFanOut(s, msg, env)

\* the other stanza dispatchers
RECURSIVE ForEachHandleSubscription(_, _, _)
\* the loop over m_subscriptionHandlers
ForEachHandleSubscription(s, tag, i) ==
  IF i > Len(s.m_subscriptionHandlers)
    THEN s
    ELSE ForEachHandleSubscription(
           EvI(s, "handleSubscription", [ sh |-> s.m_subscriptionHandlers[i], n |-> i ]),
           tag, i + 1)

\* ClientBase::notifySubscriptionHandlers
notifySubscriptionHandlers(s, tag, env) ==
  ForEachHandleSubscription(
    Ev(s, "notifySubscriptionHandlers", "", << >>, tag.type, 0), tag, 1)

RECURSIVE ForEachJidHandlePresence(_, _, _)
\* the loop over m_presenceJidHandlers: the state after it and `match`
ForEachJidHandlePresence(r, tag, i) ==
  IF i > Len(r.s.m_presenceJidHandlers)
    THEN r
    ELSE LET t == r.s.m_presenceJidHandlers[i]
         IN  ForEachJidHandlePresence(
               IF t.jid = tag.from.bare /\ t.ph # Null
                 THEN [ s |-> EvI(r.s, "handlePresence",
                                  [ ph |-> t.ph, list |-> "jid", n |-> i ]),
                        match |-> TRUE ]
                 ELSE r,
               tag, i + 1)

RECURSIVE ForEachHandlePresence(_, _, _)
\* the loop over m_presenceHandlers
ForEachHandlePresence(s, tag, i) ==
  IF i > Len(s.m_presenceHandlers)
    THEN s
    ELSE ForEachHandlePresence(
           EvI(s, "handlePresence",
               [ ph |-> s.m_presenceHandlers[i], list |-> "global", n |-> i ]),
           tag, i + 1)

\* notifyPresenceHandlers that goes on to the global handlers after a match
notifyPresenceHandlers_Both(s, tag, env) ==
  ForEachHandlePresence(
    ForEachJidHandlePresence(
      [ s |-> EvI(s, "notifyPresenceHandlers", [ from |-> tag.from, type |-> tag.type ]),
        match |-> FALSE ], tag, 1).s,
    tag, 1)

\* ClientBase::notifyPresenceHandlers
notifyPresenceHandlers(s, tag, env) ==
  LET r == ForEachJidHandlePresence(
             [ s |-> EvI(s, "notifyPresenceHandlers",
                         [ from |-> tag.from, type |-> tag.type ]),
               match |-> FALSE ], tag, 1)
  IN  IF r.match THEN r.s ELSE ForEachHandlePresence(r.s, tag, 1)

\* Tag::hasAttribute( XMLNS, value ): the tag carries this namespace
hasAttributeXmlns(tag, value) == tag.xmlns = value

RECURSIVE NotifyTagHandlersFrom(_, _, _)
NotifyTagHandlersFrom(s, tag, i) ==
  IF i > Len(s.m_tagHandlers)
    THEN s
    ELSE LET ths == s.m_tagHandlers[i]
         IN  NotifyTagHandlersFrom(
               IF ths.tag = tag.name /\ hasAttributeXmlns(tag, ths.xmlns)
                 THEN Ev(s, "TagHandler::handleTag", tag.name, << >>, ths.th, i)
                 ELSE s,
               tag, i + 1)

\* notifyTagHandlers that matches on the name alone
notifyTagHandlers_AnyNamespace(s, tag, env) ==
  LET RECURSIVE From(_, _)
      From(s1, i) ==
        IF i > Len(s1.m_tagHandlers)
          THEN s1
          ELSE From(IF s1.m_tagHandlers[i].tag = tag.name
                      THEN Ev(s1, "TagHandler::handleTag", tag.name, << >>,
                              s1.m_tagHandlers[i].th, i)
                      ELSE s1,
                    i + 1)
  IN  From(Ev(s, "notifyTagHandlers", tag.name, << >>, tag.xmlns, 0), 1)

\* ClientBase::notifyTagHandlers
notifyTagHandlers(s, tag, env) ==
  NotifyTagHandlersFrom(Ev(s, "notifyTagHandlers", tag.name, << >>, tag.xmlns, 0), tag, 1)

\* the counting that ignores the stream-management context
CountHandled_Always(s) == [ s EXCEPT !.m_smHandled = @ + 1 ]

\* if( m_smContext >= CtxSMEnabled ) ++m_smHandled;
CountHandled(s) == IF SMActive(s) THEN [ s EXCEPT !.m_smHandled = @ + 1 ] ELSE s

\* ClientBase::handleTag
handleTag(s0, tag, env) ==
  LET s == [ s0 EXCEPT !.m_stats = TRUE ]
  IN
  IF tag.null
    THEN Invoke(s0, ToDisconnect("ConnStreamClosed", env.cb))
  ELSE IF tag.name = "stream" /\ tag.xmlns = XMLNS_STREAM
    THEN LET s1 == EvI(s, "streamOpen", [ version |-> tag.version, id |-> tag.id ])
         IN  IF ~checkStreamVersion(tag.version)
               THEN Invoke(s1, ToDisconnect("ConnStreamVersionError", env.cb))
               ELSE handleStartNode([ s1 EXCEPT !.m_sid = tag.id ], tag)
  ELSE IF tag.name = "error" /\ tag.xmlns = XMLNS_STREAM
    THEN Invoke(handleStreamError(s, tag), ToDisconnect("ConnStreamError", env.cb))
  ELSE IF NormalNodeConsumes(tag)
    THEN handleNormalNode(s, tag)
  ELSE IF tag.xmlns = "" \/ tag.xmlns = XMLNS_CLIENT
    THEN IF tag.name = "iq"
           THEN CountHandled(notifyIqHandlers(s, IqOfTag(tag), env))
         ELSE IF tag.name = "message"
           THEN CountHandled(notifyMessageHandlers(s, MessageOfTag(tag), env))
         ELSE IF tag.name = "presence"
           THEN IF tag.type \in { "subscribe", "unsubscribe", "subscribed", "unsubscribed" }
                  THEN CountHandled(notifySubscriptionHandlers(s, tag, env))
                  ELSE CountHandled(notifyPresenceHandlers(s, tag, env))
         ELSE Ev(s, "invalidStanza", tag.name, << >>, "", 0)
  ELSE notifyTagHandlers(s, tag, env)

-----------------------------------------------------------------------------
(* The transform chain, inbound.                                           *)
(* Inbound data is what the peer serialized (content: "tag", "garbage" or  *)
(* "empty"), the stages the peer applied to it, and the Tag the parser     *)
(* makes of it.                                                            *)

InData(content, layers, tag) == [ xml |-> content, layers |-> layers, tag |-> tag ]

\* parse that disconnects before it reports the error
parse_DisconnectFirst(s, d, env) ==
  IF d.xml = "empty"
    THEN s
  ELSE IF d.xml = "garbage" \/ d.layers # << >>
    THEN sendTag(Invoke(Ev(s, "parseError", "", d.layers, "", 0),
                        ToDisconnect("ConnParseError", env.cb)),
                 StreamErrorXml)
  ELSE handleTag(EvInfo(s, "parsed", d.tag.name, << >>, "", 0, [ tag |-> d.tag ]),
                 d.tag, env)

\* ClientBase::parse
parse(s0, d, env) ==
  LET s == Ev(s0, "parse", d.xml, d.layers, "", 0)
  IN
  IF d.xml = "empty"
    THEN s
  ELSE IF d.xml = "garbage" \/ d.layers # << >>
    THEN Invoke(sendTag(Ev(s, "parseError", "", d.layers, "", 0), StreamErrorXml),
                ToDisconnect("ConnParseError", env.cb))
  ELSE handleTag(EvInfo(s, "parsed", d.tag.name, << >>, "", 0, [ tag |-> d.tag ]),
                 d.tag, env)

\* the call c made on the ClientBase in state s
Invoke(s, c) ==
  CASE c.method = "send" -> sendXml(s, c.xml)
    [] c.method = "callback" -> RunScript(s, c.cb)
    [] c.method = "disconnect" -> disconnect(s, c.reason, c.cb)
    [] c.method = "parse" -> parse(s, c.d, c.env)

handleDecompressedData(s, d, env) == Invoke(s, ToParse(d, env))

\* CompressionBase::decompress: the output comes back through
\* handleDecompressedData; input that is no compressed stream yields nothing
Decompress(s, d, env) ==
  LET s1 == Ev(s, "decompress", d.xml, d.layers, "", 0)
  IN  IF d.layers # << >> /\ d.layers[Len(d.layers)] = "Z"
        THEN handleDecompressedData(s1, [ d EXCEPT !.layers = SubSeq(@, 1, Len(@) - 1) ], env)
        ELSE handleDecompressedData(s1, [ d EXCEPT !.xml = "empty", !.layers = << >> ], env)

\* handleDecryptedData that hands everything to the parser
handleDecryptedData_ParseAlways(s, d, env) == Invoke(s, ToParse(d, env))

\* ClientBase::handleDecryptedData
handleDecryptedData(s, d, env) ==
  IF s.m_compression /\ s.m_compressionActive
    THEN Decompress(s, d, env)
    ELSE Invoke(s, ToParse(d, env))

\* TLSBase::decrypt: the output comes back through handleDecryptedData; input
\* that is no TLS record, or that arrives before the handshake is over,
\* yields nothing
TLSDecrypt(s, d, env) ==
  LET s1 == Ev(s, "decrypt", d.xml, d.layers, "", 0)
  IN  IF s.tlsState = "done" /\ d.layers # << >> /\ d.layers[Len(d.layers)] = "T"
        THEN handleDecryptedData(s1, [ d EXCEPT !.layers = SubSeq(@, 1, Len(@) - 1) ], env)
        ELSE s1

\* ClientBase::handleReceivedData
handleReceivedData(s, d, env) ==
  IF s.m_encryption /\ s.m_encryptionActive
    THEN TLSDecrypt(s, d, env)
    ELSE IF s.m_compression /\ s.m_compressionActive
      THEN Decompress(s, d, env)
      ELSE Invoke(s, ToParse(d, env))

-----------------------------------------------------------------------------
(* TLS handshake result.                                                   *)

RECURSIVE OnTLSConnectFrom(_, _, _)
\* the loop of ClientBase::notifyOnTLSConnect: the state after it and
\* whether it ran to the end of the list
OnTLSConnectFrom(s, reject, i) ==
  IF i > Len(s.m_connectionListeners)
    THEN [ s |-> s, ok |-> TRUE ]
    ELSE LET l == s.m_connectionListeners[i]
             s1 == Ev(s, "onTLSConnect", "", << >>, "", l)
         IN  IF l \in reject
               THEN [ s |-> s1, ok |-> FALSE ]
               ELSE OnTLSConnectFrom(s1, reject, i + 1)

notifyOnTLSConnect(s, reject) == OnTLSConnectFrom(s, reject, 1)

\* handleHandshakeResult that does not look at the listeners' answers
handleHandshakeResult_IgnoreReject(s, success, env) ==
  IF success
    THEN header(notifyOnTLSConnect(s, env.reject).s)
    ELSE Invoke(s, ToDisconnect("ConnTlsFailed", env.cb))

\* ClientBase::handleHandshakeResult
handleHandshakeResult(s, success, env) ==
  IF success
    THEN LET r == notifyOnTLSConnect(s, env.reject)
         IN  IF ~r.ok
               THEN Invoke(r.s, ToDisconnect("ConnTlsFailed", env.cb))
               ELSE header(r.s)
    ELSE Invoke(s, ToDisconnect("ConnTlsFailed", env.cb))

-----------------------------------------------------------------------------
(* SASL: the SCRAM server signature.                                       *)
(* A std::string is a sequence of bytes (character codes).                 *)

SaslMechNone == "SaslMechNone"
SaslMechScramSha1 == "SaslMechScramSha1"
SaslMechScramSha1Plus == "SaslMechScramSha1Plus"
SaslMechDigestMd5 == "SaslMechDigestMd5"
SaslMechPlain == "SaslMechPlain"
SaslMechs ==
  { SaslMechScramSha1, SaslMechScramSha1Plus, SaslMechDigestMd5, SaslMechPlain }
\* the mechanisms a fresh ClientBase allows
SaslMechAll == SaslMechs

\* the base64 alphabet A-Z a-z 0-9 + / as character codes, and the padding =
Base64Alphabet ==
  [ i \in 1..64 |-> IF i <= 26 THEN 64 + i
                    ELSE IF i <= 52 THEN 70 + i
                    ELSE IF i <= 62 THEN i - 5
                    ELSE IF i = 63 THEN 43 ELSE 47 ]
Base64Pad == 61

RECURSIVE Encode64From(_, _)
\* Base64::encode64 from the i-th byte on: three bytes make four characters
Encode64From(in, i) ==
  IF i > Len(in)
    THEN << >>
  ELSE IF i = Len(in)
    THEN << Base64Alphabet[(in[i] \div 4) + 1],
            Base64Alphabet[((in[i] % 4) * 16) + 1], Base64Pad, Base64Pad >>
  ELSE IF i + 1 = Len(in)
    THEN << Base64Alphabet[(in[i] \div 4) + 1],
            Base64Alphabet[((in[i] % 4) * 16 + in[i + 1] \div 16) + 1],
            Base64Alphabet[((in[i + 1] % 16) * 4) + 1], Base64Pad >>
  ELSE << Base64Alphabet[(in[i] \div 4) + 1],
          Base64Alphabet[((in[i] % 4) * 16 + in[i + 1] \div 16) + 1],
          Base64Alphabet[((in[i + 1] % 16) * 4 + in[i + 2] \div 64) + 1],
          Base64Alphabet[(in[i + 2] % 64) + 1] >> \o Encode64From(in, i + 3)

encode64(in) == Encode64From(in, 1)

\* the six bits of a base64 character; 0 for any other character
Table64(c) ==
  IF \E k \in 1..64 : Base64Alphabet[k] = c
    THEN (CHOOSE k \in 1..64 : Base64Alphabet[k] = c) - 1
    ELSE 0

RECURSIVE Decode64From(_, _)
\* Base64::decode64 from the i-th character on: four characters make three
\* bytes, the padding ends the input
Decode64From(in, i) ==
  IF i > Len(in)
    THEN << >>
    ELSE LET c == Table64(in[i])
             d == IF i + 1 <= Len(in) THEN Table64(in[i + 1]) ELSE 0
             b1 == (c * 4 + d \div 16) % 256
         IN  IF i + 2 > Len(in) \/ in[i + 2] = Base64Pad
               THEN << b1 >>
               ELSE LET e == Table64(in[i + 2])
                        b2 == ((d % 16) * 16 + e \div 4) % 256
                    IN  IF i + 3 > Len(in) \/ in[i + 3] = Base64Pad
                          THEN << b1, b2 >>
                          ELSE << b1, b2, ((e % 4) * 64 + Table64(in[i + 3])) % 256 >>
                                 \o Decode64From(in, i + 4)

decode64(in) == Decode64From(in, 1)

\* std::string::substr( pos ), pos counted from 0
Substr(str, pos) == SubSeq(str, pos + 1, Len(str))

\* std::string::npos
Npos == -1

\* std::string::find( pat, from ): the first position at or after from where
\* pat starts, counted from 0
FindFrom(str, pat, from) ==
  LET hits == { i \in from..(Len(str) - Len(pat)) : SubSeq(str, i + 1, i + Len(pat)) = pat }
  IN  IF hits = { } THEN Npos ELSE CHOOSE i \in hits : \A j \in hits : i <= j

Find(str, pat) == FindFrom(str, pat, 0)

\* std::string::substr( pos, n ) with n a size_t: a negative n wraps to a
\* huge one and the rest of the string is taken
SubstrN(str, pos, n) ==
  IF n < 0 \/ pos + n > Len(str) THEN SubSeq(str, pos + 1, Len(str))
                                ELSE SubSeq(str, pos + 1, pos + n)

\* prep::saslprep( in, out ): whether the profile accepts the string is the
\* collaborator's answer; US-ASCII text is left as it is
saslprep(env, str) == [ ok |-> env.prep, out |-> str ]

\* the element a SASL step builds: new Tag, addAttribute, setCData
SaslTag(name, mechanism, cdata) == [ name |-> name, mechanism |-> mechanism, cdata |-> cdata ]

\* startSASL, the SCRAM case: the gs2 header.  Strings are sequences of
\* character codes: << 121, 44 >> is "y,", << 110, 44 >> is "n,",
\* << 112, 61 >> is "p=", << 97, 61 >> is "a=" and << 44 >> is ","
Gs2Header(s, type, env) ==
  LET flag == IF type = SaslMechScramSha1
                THEN IF SaslMechScramSha1Plus \notin s.m_availableSaslMechs
                       THEN << 121, 44 >>
                       ELSE << 110, 44 >>
                ELSE << 112, 61 >> \o env.channelBindingType \o << 44 >>
      t == saslprep(env, s.m_authzid)
  IN  flag \o (IF s.m_authzid # << >> /\ t.ok THEN << 97, 61 >> \o t.out ELSE << >>) \o << 44 >>

\* startSASL, the SCRAM case: the client-first-message-bare
ClientFirstMessageBare(s, env) ==
  LET c == saslprep(env, s.m_authcid)
      u == saslprep(env, s.m_jid.username)
  IN  << 110, 61 >>
        \o (IF s.m_authcid # << >> /\ c.ok THEN c.out
            ELSE IF u.ok THEN u.out ELSE << >>)
        \o << 44, 114, 61 >> \o env.random

\* the PLAIN string with the user name of the JID in every case
PlainPayload_Username(s) ==
  (IF s.m_authzid # << >> THEN s.m_authzid ELSE << >>)
    \o << 0 >> \o s.m_jid.username \o << 0 >> \o s.m_password

\* startSASL, the PLAIN case: the string that is encoded
PlainPayload(s) ==
  (IF s.m_authzid # << >> THEN s.m_authzid ELSE << >>)
    \o << 0 >>
    \o (IF s.m_authcid # << >> THEN s.m_authcid ELSE s.m_jid.username)
    \o << 0 >>
    \o s.m_password

\* ClientBase::startSASL: the mechanism is remembered, the <auth/> of the
\* mechanism is built and sent
startSASL(s0, type, env) ==
  LET s == Ev([ s0 EXCEPT !.m_selectedSaslMech = type,
                          !.saslExchange = [ clientFirst |-> << >>, challenged |-> FALSE ] ],
              "startSASL", "", << >>, type, 0)
  IN  IF type \in { SaslMechScramSha1, SaslMechScramSha1Plus }
        THEN LET gs2 == Gs2Header(s, type, env)
                 bare == ClientFirstMessageBare(s, env)
                 a == SaslTag("auth",
                              IF type = SaslMechScramSha1 THEN "SCRAM-SHA-1"
                                                          ELSE "SCRAM-SHA-1-PLUS",
                              encode64(gs2 \o bare))
             IN  sendTag(EvI([ s EXCEPT !.m_gs2Header = gs2,
                                        !.m_clientFirstMessageBare = bare,
                                        !.saslExchange.clientFirst = gs2 \o bare ],
                             "tag", a),
                         "auth")
      ELSE IF type = SaslMechDigestMd5
        THEN sendTag(EvI(s, "tag", SaslTag("auth", "DIGEST-MD5", << >>)), "auth")
      ELSE IF type = SaslMechPlain
        THEN sendTag(EvI(s, "tag", SaslTag("auth", "PLAIN", encode64(PlainPayload(s)))),
                     "auth")
        ELSE sendTag(EvI(s, "tag", SaslTag("auth", "", << >>)), "auth")

\* processSASLChallenge, the SCRAM case: the client-final-message-without-
\* proof for the server nonce snonce
ClientFinalWithoutProof(s, snonce, env) ==
  (IF s.m_selectedSaslMech = SaslMechScramSha1Plus
     THEN << 99, 61 >> \o encode64(s.m_gs2Header \o env.channelBinding)
     ELSE << 99, 61, 98, 105, 119, 115 >>)
    \o << 44, 114, 61 >> \o snonce

\* the element of a SCRAM challenge; one without a name stands for the
\* function returning before it sends its element
ScramResponse(s, decoded, env) ==
  LET posn == Find(decoded, << 114, 61 >>)
      poss == Find(decoded, << 115, 61 >>)
      posi == Find(decoded, << 105, 61 >>)
  IN  IF posn = Npos \/ poss = Npos \/ posi = Npos
        THEN [ s |-> s, t |-> SaslTag("response", "", << >>) ]
        ELSE LET snonce == SubstrN(decoded, posn + 2, poss - posn - 3)
                 tmp == ClientFinalWithoutProof(s, snonce, env)
             IN  IF ~saslprep(env, s.m_password).ok
                   THEN [ s |-> s, t |-> SaslTag("response", "", << >>) ]
                   ELSE [ s |-> [ s EXCEPT !.m_serverSignature = env.serverSignature,
                                           !.saslExchange.challenged = TRUE ],
                          t |-> SaslTag("response", "",
                                        encode64(tmp \o << 44, 112, 61 >> \o encode64(env.clientProof))) ]

RECURSIVE QuoteEnd(_, _)
\* the closing quote of a quoted value: one after a backslash does not count
QuoteEnd(decoded, end) ==
  IF end >= 1 /\ end <= Len(decoded) /\ decoded[end] = 92
    THEN QuoteEnd(decoded, FindFrom(decoded, << 34 >>, end + 1))
    ELSE end

\* the element of a DIGEST-MD5 challenge: a challenge that starts with
\* "rspauth" gets an empty <response/>, one without nonce= gets none (the
\* element with the empty name), and every other one gets username="..",
\* realm="..",nonce="..",cnonce="..",nc=00000001,qop=auth,
\* digest-uri="xmpp/<server>",response=<digest>,charset=utf-8 and, with an
\* authorization identity, ,authzid=..; 34 is the double quote, 92 the
\* backslash
DigestResponse(s, decoded, env) ==
  IF SubstrN(decoded, 0, 7) = << 114, 115, 112, 97, 117, 116, 104 >>
    THEN [ s |-> s, t |-> SaslTag("response", "", << >>) ]
    ELSE LET rpos == Find(decoded, << 114, 101, 97, 108, 109, 61 >>)
             realm == IF rpos # Npos
                        THEN SubstrN(decoded, rpos + 7,
                                     FindFrom(decoded, << 34 >>, rpos + 7) - (rpos + 7))
                        ELSE s.m_jid.server
             pos == Find(decoded, << 110, 111, 110, 99, 101, 61 >>)
         IN  IF pos = Npos
               THEN [ s |-> s, t |-> SaslTag("", "", << >>) ]
               ELSE LET end == QuoteEnd(decoded, FindFrom(decoded, << 34 >>, pos + 7))
                        nonce == SubstrN(decoded, pos + 7, end - (pos + 7))
                        response ==
                          << 117, 115, 101, 114, 110, 97, 109, 101, 61, 34 >> \o s.m_jid.username
                            \o << 34, 44, 114, 101, 97, 108, 109, 61, 34 >> \o realm
                            \o << 34, 44, 110, 111, 110, 99, 101, 61, 34 >> \o nonce
                            \o << 34, 44, 99, 110, 111, 110, 99, 101, 61, 34 >> \o env.random
                            \o << 34, 44, 110, 99, 61, 48, 48, 48, 48, 48, 48, 48, 49, 44, 113, 111, 112, 61, 97, 117, 116, 104, 44, 100, 105, 103, 101, 115, 116, 45, 117, 114, 105, 61, 34, 120, 109, 112, 112, 47 >> \o s.m_jid.server
                            \o << 34, 44, 114, 101, 115, 112, 111, 110, 115, 101, 61 >> \o env.digest
                            \o << 44, 99, 104, 97, 114, 115, 101, 116, 61, 117, 116, 102, 45, 56 >>
                            \o (IF s.m_authzid # << >>
                                  THEN << 44, 97, 117, 116, 104, 122, 105, 100, 61 >> \o s.m_authzid
                                  ELSE << >>)
                    IN  [ s |-> s, t |-> SaslTag("response", "", encode64(response)) ]

\* ClientBase::processSASLChallenge: the <response/> of the selected
\* mechanism is built and sent; under SCRAM a challenge with r=, s= and i=
\* leaves the HMAC it leads to in m_serverSignature
processSASLChallenge(s, challenge, env) ==
  LET decoded == decode64(challenge)
      r == IF s.m_selectedSaslMech \in { SaslMechScramSha1, SaslMechScramSha1Plus }
             THEN ScramResponse(s, decoded, env)
           ELSE IF s.m_selectedSaslMech = SaslMechDigestMd5
             THEN DigestResponse(s, decoded, env)
             ELSE [ s |-> s, t |-> SaslTag("response", "", << >>) ]
  IN  IF r.t.name = ""
        THEN EvI(r.s, "tagLeaked", SaslTag("response", "", << >>))
        ELSE sendTag(EvI(r.s, "tag", r.t), "response")

\* ClientBase::processSASLSuccess: the state and the value returned
processSASLSuccess(s, payload) ==
  [ s |-> s,
    ret |-> IF s.m_selectedSaslMech \in { SaslMechScramSha1, SaslMechScramSha1Plus }
              THEN LET decoded == decode64(payload)
                   IN  ~(Len(decoded) < 3
                           \/ decode64(Substr(decoded, 2)) # s.m_serverSignature)
              ELSE TRUE ]

-----------------------------------------------------------------------------
(* The state after construction.                                           *)

Init ==
  /\ m_connection = FALSE
  /\ connectionState = StateDisconnected
  /\ m_encryption = FALSE
  /\ m_compression = FALSE
  /\ m_encryptionActive = FALSE
  /\ m_compressionActive = FALSE
  /\ tlsState = "idle"
  /\ m_smContext = CtxSMInvalid
  /\ m_smSent = 0
  /\ m_smHandled = 0
  /\ m_smQueue = << >>
  /\ smSends = << >>
  /\ m_sid = << >>
  /\ m_selectedSaslMech = SaslMechNone
  /\ m_serverSignature = << >>
  /\ m_authed = FALSE
  /\ m_resourceBound = FALSE
  /\ m_connectionListeners = << >>
  /\ m_nextId = 0
  /\ issuedIds = << >>
  /\ m_iqIDHandlers = << >>
  /\ m_iqExtHandlers = << [ ext |-> ExtPing, ih |-> This ] >>
  /\ m_tagHandlers = << >>
  /\ m_iqHandlerMapMutex = FALSE
  /\ notifyThread = NotifyIdle
  /\ removeThread = [ pc |-> "idle", ih |-> Null, returned |-> { } ]
  /\ m_iqExtHandlerMapMutex = FALSE
  /\ iqRegs = << >>
  /\ deletedHandlers = { }
  /\ m_mucInvitationHandler = Null
  /\ m_messageSessions = << >>
  /\ m_messageSessionHandlerChat = Null
  /\ m_messageSessionHandlerNormal = Null
  /\ m_messageSessionHandlerGroupchat = Null
  /\ m_messageSessionHandlerHeadline = Null
  /\ m_messageHandlers = << >>
  /\ m_presenceHandlers = << >>
  /\ m_presenceJidHandlers = << >>
  /\ m_subscriptionHandlers = << >>
  /\ m_streamError = StreamErrorUndefined
  /\ m_streamErrorText = << >>
  /\ m_streamErrorCData = ""
  /\ m_streamErrorAppCondition = Null
  /\ m_availableSaslMechs = SaslMechAll
  /\ m_jid = [ username |-> << 117 >>, server |-> << 104 >> ]
  /\ m_authzid = << >>
  /\ m_authcid = << >>
  /\ m_password = << 112, 119 >>
  /\ m_gs2Header = << >>
  /\ m_clientFirstMessageBare = << >>
  /\ saslExchange = [ clientFirst |-> << >>, challenged |-> FALSE ]
  /\ m_presenceExtensions = << >>
  /\ m_stats = FALSE
  /\ trace = << >>
  /\ streamOver = FALSE

-----------------------------------------------------------------------------------------------------------------------------------------------------
(* Entry points: the public methods and the collaborators' callbacks.      *)
(* Each takes the sets its inputs are drawn from, so that a specification  *)
(* can leave out the inputs its claims do not depend on.                   *)

Connected == m_connection /\ connectionState = StateConnected

\* the stage layerings a peer can put on its data
InLayers == { << >>, << "Z" >>, << "T" >>, << "Z", "T" >> }

\* the layering of a peer that follows the negotiated chain
PeerLayers ==
  (IF m_compression /\ m_compressionActive THEN << "Z" >> ELSE << >>)
    \o (IF m_encryption /\ m_encryptionActive THEN << "T" >> ELSE << >>)

\* ClientBase::connect: a missing stage is created when the build has one
ConnectOp(Encs, Comps, Oks) ==
  /\ ~(m_connection /\ StateRank(connectionState) >= StateRank(StateConnecting))
  /\ \E defEnc \in Encs, defComp \in Comps, ok \in Oks :
       LET s == Call(St, "connect", "", 0)
       IN  Commit([ s EXCEPT !.streamOver = FALSE,
                             !.m_connection = TRUE,
                             !.m_encryption = @ \/ defEnc,
                             !.m_compression = @ \/ defComp,
                             !.connectionState =
                                IF ok THEN StateConnecting ELSE StateDisconnected ])

\* the connection is established: ClientBase::handleConnect
HandleConnect ==
  /\ m_connection /\ connectionState = StateConnecting
  /\ Commit(header([ Call(St, "handleConnect", "", 0)
                       EXCEPT !.connectionState = StateConnected ]))

WhitespacePing == Commit(whitespacePing(Call(St, "whitespacePing", "", 0)))

\* ClientBase::startTls, one of the callers of send( Tag* )
StartTls == Commit(sendTag(Call(St, "send(Tag)", "", 0), "starttls"))

SendStanza == Commit(sendStanza(Call(St, "send(Stanza)", "", 0), "message"))

Stanzas == { "iq", "message", "presence" }

RECURSIVE SendAll(_, _, _)
\* the application sends the stanzas of seq from the i-th on, one call each
SendAll(s, seq, i) ==
  IF i > Len(seq) THEN s ELSE SendAll(sendStanza(s, seq[i]), seq, i + 1)

SendSequenceOp(Seqs) ==
  \E seq \in Seqs :
    Commit(SendAll(EvInfo(St, "call", "sendSequence", << >>, "", 0, [ seq |-> seq ]),
                   seq, 1))

SetEncryptionImpl ==
  \E e \in BOOLEAN :
    Commit([ Call(St, "setEncryptionImpl", "", 0)
               EXCEPT !.m_encryption = e, !.tlsState = "idle" ])

SetCompressionImpl ==
  \E c \in BOOLEAN :
    Commit([ Call(St, "setCompressionImpl", "", 0) EXCEPT !.m_compression = c ])

RegisterConnectionListenerOp(Ls, max) ==
  /\ Len(m_connectionListeners) < max
  /\ \E cl \in Ls :
       Commit([ Call(St, "registerConnectionListener", "", cl)
                  EXCEPT !.m_connectionListeners = Append(@, cl) ])

\* std::list::remove: every entry equal to cl goes
RemoveConnectionListenerOp(Ls) ==
  \E cl \in Ls :
    Commit([ Call(St, "removeConnectionListener", "", cl)
               EXCEPT !.m_connectionListeners = SelectSeq(@, LAMBDA x : x # cl) ])

\* ClientBase::checkQueue, which the Client layer calls on <a/> and <resumed/>
CheckQueueOp ==
  \E handled \in -1..MaxSm, resend \in BOOLEAN :
    Commit(checkQueue(EvInfo(St, "call", "checkQueue", << >>,
                             IF resend THEN "resend" ELSE "", handled,
                             [ queue |-> m_smQueue, sends |-> Len(smSends) ]),
                      handled, resend))

\* data arrives from the socket: ClientBase::handleReceivedData
ReceiveEnv(op, content, tag, Layers, Envs) ==
  /\ Connected
  /\ \E layers \in Layers, env \in Envs :
       Commit(handleReceivedData(Call(St, op, "", 0), InData(content, layers, tag), env))

Receive(op, content, tag, Layers, Cbs) ==
  ReceiveEnv(op, content, tag, Layers, { Env(cb, { }) : cb \in Cbs })

Versions == { << >>, << "1", ".", "0" >>, << "2", ".", "0" >> }

RecvStreamOpenOp(Vs, Ids, Layers, Cbs) ==
  \E version \in Vs, id \in Ids :
    Receive("recvStreamOpen", "tag", StreamTag(version, id), Layers, Cbs)

RecvStreamErrorOp(Children, Layers, Cbs) ==
  \E children \in Children :
    Receive("recvStreamError", "tag",
            [ PlainTag("error", XMLNS_STREAM, "") EXCEPT !.children = children ],
            Layers, Cbs)

RecvStreamClosedOp(Layers, Cbs) == Receive("recvStreamClosed", "tag", NullTag, Layers, Cbs)

RecvGarbageOp(Layers, Cbs) == Receive("recvGarbage", "garbage", NoTag, Layers, Cbs)

ProceedTag == PlainTag("proceed", "urn:ietf:params:xml:ns:xmpp-tls", "")
CompressedTag == PlainTag("compressed", "http://jabber.org/protocol/compress", "")
EnabledTag == PlainTag("enabled", "urn:xmpp:sm:3", "")
FeaturesTag == PlainTag("features", XMLNS_STREAM, "")

RecvNegotiationOp(Tags, Layers) ==
  \E t \in Tags : Receive("recvNegotiation", "tag", t, Layers, { "none" })

StanzaTags ==
  { PlainTag("iq", XMLNS_CLIENT, "get"), PlainTag("message", "", "chat"),
    PlainTag("presence", XMLNS_CLIENT, ""), PlainTag("presence", XMLNS_CLIENT, "subscribe") }

RecvStanzaOp(Tags, Layers) ==
  \E t \in Tags : Receive("recvStanza", "tag", t, Layers, { "none" })

OtherTags == { PlainTag("iq", "urn:foreign", "get"), PlainTag("bogus", XMLNS_CLIENT, "") }

RecvOtherOp(Tags, Layers) ==
  \E t \in Tags : Receive("recvOther", "tag", t, Layers, { "none" })

\* the TLS stage reports the end of its handshake
HandleHandshakeResultOp(Cbs) ==
  /\ Connected /\ m_encryption /\ tlsState = "handshaking"
  /\ \E success \in BOOLEAN, reject \in SUBSET Listeners, cb \in Cbs :
       Commit(handleHandshakeResult(
                [ EvInfo(St, "call", "handleHandshakeResult", << >>, "", 0,
                         [ success |-> success, reject |-> reject ])
                    EXCEPT !.tlsState = "done" ],
                success, Env(cb, reject)))

\* the connection reports that it is gone
HandleDisconnectOp(Cbs) ==
  /\ m_connection /\ connectionState # StateDisconnected
  /\ \E reason \in { "ConnIoError" }, cb \in Cbs :
       Commit(handleDisconnect(Call(St, "handleDisconnect", reason, 0), reason, cb))

DisconnectOp(Reasons, Cbs) ==
  \E reason \in Reasons, cb \in Cbs :
    Commit(Invoke(Call(St, "disconnect", reason, 0), ToDisconnect(reason, cb)))

\* the peers stanzas come from and go to
Peer == JID("peer", "r")

\* send( IQ&, IqHandler*, int, bool ); a handler that was deleted is not
\* handed in again
SendIqOp(Ihs, Ids, Subtypes, Contexts, Dels) ==
  \E ih \in Ihs \ deletedHandlers, id \in Ids, subtype \in Subtypes,
     context \in Contexts, del \in Dels :
    Commit(sendIqTracked(EvInfo(St, "call", "sendIq", << >>, "", 0,
                                [ iq |-> NewIq(subtype, Peer, id), ih |-> ih,
                                  context |-> context, del |-> del,
                                  map |-> m_iqIDHandlers, issued |-> issuedIds ]),
                         NewIq(subtype, Peer, id),
                         ih, context, del))

\* the HMACs a challenge can lead to
ServerSignatures == [ 1..SigLen -> { 0, 1, 255 } ]

\* TLSBase::channelBindingType and TLSBase::channelBinding: a name and the
\* bytes of the TLS session
ChannelBindingType == << 116, 108, 115 >>
ChannelBinding == << 200, 7 >>

\* what the collaborators answer during one SASL step: prep::saslprep,
\* getRandom, the TLS stage's channel binding, and the hashes
SaslEnv(prep, random, serverSignature) ==
  [ prep |-> prep, random |-> random,
    channelBindingType |-> ChannelBindingType,
    channelBinding |-> ChannelBinding,
    serverSignature |-> serverSignature,
    clientProof |-> << 1, 2 >>,
    digest |-> << 100, 49 >> ]

\* ClientBase::setAuthzid, setAuthcid and setSASLMechanisms
SetAuthzidOp(Jids) ==
  \E j \in Jids :
    /\ j # m_authzid
    /\ Commit([ Call(St, "setAuthzid", "", 0) EXCEPT !.m_authzid = j ])

SetAuthcidOp(Ids) ==
  \E c \in Ids :
    /\ c # m_authcid
    /\ Commit([ Call(St, "setAuthcid", "", 0) EXCEPT !.m_authcid = c ])

SetSASLMechanismsOp(Sets) ==
  \E m \in Sets :
    /\ m # m_availableSaslMechs
    /\ Commit([ Call(St, "setSASLMechanisms", "", 0)
                  EXCEPT !.m_availableSaslMechs = m ])

\* startSASL; the Client layer selects SCRAM-SHA-1-PLUS over TLS only
StartSASLOp(Mechs, Preps, Randoms) ==
  \E type \in Mechs, prep \in Preps, random \in Randoms :
    /\ type = SaslMechScramSha1Plus => m_encryption
    /\ Commit(startSASL(Call(St, "startSASL", type, 0), type,
                        SaslEnv(prep, random, << >>)))

\* <challenge/> with the base64 of one of the texts
ProcessSASLChallengeOp(Texts, Preps, Randoms, Sigs) ==
  \E decoded \in Texts, prep \in Preps, random \in Randoms, sig \in Sigs :
    Commit(processSASLChallenge(
             EvInfo(St, "call", "processSASLChallenge", << >>, "", 0,
                    [ decoded |-> decoded, serverSignature |-> sig ]),
             encode64(decoded), SaslEnv(prep, random, sig)))

\* <success/> with a payload the server built: base64 of `name` followed by
\* base64 of `value`
ProcessSASLSuccessOp(Names, Values) ==
  \E name \in Names, value \in Values :
    LET payload == encode64(name \o encode64(value))
        r == processSASLSuccess(
               EvInfo(St, "call", "processSASLSuccess", << >>, "", 0,
                      [ name |-> name, value |-> value, payload |-> payload ]),
               payload)
    IN  Commit(EvI(r.s, "processSASLSuccessReturn", [ ret |-> r.ret ]))

\* ClientBase::getID, called by the application
GetIDOp ==
  LET g == getID(Call(St, "getID", "", 0))
  IN  Commit(EvI(g.s, "getIDReturn", [ id |-> g.id ]))

RemoveIDHandlerOp(Ihs) ==
  \E ih \in Ihs : Commit(removeIDHandler(Call(St, "removeIDHandler", ih, 0), ih))

IqTag(type, id, from, exts) ==
  [ NoTag EXCEPT !.name = "iq", !.xmlns = XMLNS_CLIENT, !.type = type, !.id = id,
                 !.from = from, !.exts = exts ]

PresenceHandlers == { "ph1", "ph2" }
SubscriptionHandlers == { "sh1", "sh2" }

AddPresenceExtensionOp(Types) ==
  \E se \in Types :
    Commit(addPresenceExtension(Call(St, "addPresenceExtension", se, 0), se))

RemovePresenceExtensionOp(Types) ==
  \E type \in Types :
    Commit(removePresenceExtension(Call(St, "removePresenceExtension", type, 0), type))

RegisterPresenceHandlerOp(Phs) ==
  /\ Len(m_presenceHandlers) < MaxHandlerList
  /\ \E ph \in Phs :
       Commit(registerPresenceHandler(Call(St, "registerPresenceHandler", ph, 0), ph))

RemovePresenceHandlerOp(Phs) ==
  \E ph \in Phs :
    Commit(removePresenceHandler(Call(St, "removePresenceHandler", ph, 0), ph))

RegisterPresenceJidHandlerOp(Jids, Phs) ==
  /\ Len(m_presenceJidHandlers) < MaxHandlerList
  /\ \E jid \in Jids, ph \in Phs :
       Commit(registerPresenceJidHandler(
                EvInfo(St, "call", "registerPresenceJidHandler", << >>, ph, 0,
                       [ jid |-> jid ]),
                jid, ph))

RemovePresenceJidHandlerOp(Jids, Phs) ==
  \E jid \in Jids, ph \in Phs :
    Commit(removePresenceJidHandler(
             EvInfo(St, "call", "removePresenceJidHandler", << >>, ph, 0, [ jid |-> jid ]),
             jid, ph))

RegisterSubscriptionHandlerOp(Shs) ==
  /\ Len(m_subscriptionHandlers) < MaxHandlerList
  /\ \E sh \in Shs :
       Commit(registerSubscriptionHandler(
                Call(St, "registerSubscriptionHandler", sh, 0), sh))

RemoveSubscriptionHandlerOp(Shs) ==
  \E sh \in Shs :
    Commit(removeSubscriptionHandler(Call(St, "removeSubscriptionHandler", sh, 0), sh))

PresenceTag(type, from) ==
  [ NoTag EXCEPT !.name = "presence", !.xmlns = XMLNS_CLIENT, !.type = type, !.from = from ]

\* a presence or a subscription request arrives
RecvPresenceOp(Types, Froms) ==
  \E type \in Types, from \in Froms :
    Receive("recvPresence", "tag", PresenceTag(type, from), { << >> }, { "none" })

\* the steps of a thread in notifyIqHandlers, for an IQ the parser made on
\* that thread; an IQ without an id handler is dispatched in one step
NotifyFindOp(Types, Ids) ==
  /\ notifyThread.pc = "idle"
  /\ \E type \in Types, id \in Ids :
       LET iq == IqOfTag(IqTag(type, id, Peer, << >>))
           s == Call(St, "notifyIqHandlers", "find", 0)
       IN  IF iq.id \in DOMAIN m_iqIDHandlers /\ iq.subtype \in { "result", "error" }
             THEN Commit(NotifyFind(s, iq))
             ELSE Commit(notifyIqHandlers(s, iq, EnvIq("none", { })))

NotifyCallOp ==
  /\ notifyThread.pc = "found"
  /\ \E outcome \in { "read", "crash" } :
       Commit(NotifyCall(Call(St, "notifyIqHandlers", "call", 0), outcome,
                         EnvIq("none", { })))

NotifyEraseOp ==
  /\ notifyThread.pc = "called"
  /\ \E outcome \in { "none", "crash" } :
       Commit(NotifyErase(Call(St, "notifyIqHandlers", "erase", 0), outcome))

\* the steps of a thread in removeIDHandler: the loop under the mutex, and
\* the return
RemoveIDHandlerBodyOp(Ihs) ==
  /\ removeThread.pc = "idle"
  /\ \E ih \in Ihs :
       Commit([ removeIDHandler(Call(St, "removeIDHandler", ih, 0), ih)
                  EXCEPT !.removeThread.pc = "unlocked", !.removeThread.ih = ih ])

RemoveIDHandlerReturnOp ==
  /\ removeThread.pc = "unlocked"
  /\ Commit([ Call(St, "removeIDHandler", "return", 0)
                EXCEPT !.removeThread.pc = "idle",
                       !.removeThread.returned = @ \cup { removeThread.ih } ])

RegisterIqHandlerOp(Ihs, Exts) ==
  \E ih \in Ihs, ext \in Exts :
    Commit(registerIqHandler(Call(St, "registerIqHandler", ih, 0), ih, ext))

RemoveIqHandlerOp(Ihs, Exts) ==
  \E ih \in Ihs, ext \in Exts :
    Commit(removeIqHandler(
             EvInfo(St, "call", "removeIqHandler", << >>, ih, 0, [ ext |-> ext ]),
             ih, ext))

TagHandlers == { "th1", "th2" }

RegisterTagHandlerOp(Ths, Names, Namespaces) ==
  /\ Len(m_tagHandlers) < MaxTagHandlers
  /\ \E th \in Ths, tag \in Names, xmlns \in Namespaces :
       Commit(registerTagHandler(Call(St, "registerTagHandler", th, 0), th, tag, xmlns))

RemoveTagHandlerOp(Ths, Names, Namespaces) ==
  \E th \in Ths, tag \in Names, xmlns \in Namespaces :
    Commit(removeTagHandler(
             EvInfo(St, "call", "removeTagHandler", << >>, th, 0,
                    [ tag |-> tag, xmlns |-> xmlns, before |-> m_tagHandlers ]),
             th, tag, xmlns))

\* an IQ arrives
RecvIqOp(Types, Ids, Exts, Accepts, Layers) ==
  \E type \in Types, id \in Ids, exts \in Exts :
    ReceiveEnv("recvIq", "tag", IqTag(type, id, Peer, exts), Layers,
               { EnvIq("none", accept) : accept \in Accepts })

\* ClientBase::registerMUCInvitationHandler, removeMUCInvitationHandler
RegisterMUCInvitationHandlerOp(Mihs) ==
  \E mih \in Mihs :
    LET s == Call(St, "registerMUCInvitationHandler", mih, 0)
    IN  Commit(IF mih # Null THEN [ s EXCEPT !.m_mucInvitationHandler = mih ] ELSE s)

RemoveMUCInvitationHandlerOp ==
  Commit([ Call(St, "removeMUCInvitationHandler", "", 0) EXCEPT
           !.m_mucInvitationHandler = Null ])

\* ClientBase::registerMessageSessionHandler; types is the set of subtypes
\* in the bit mask
registerMessageSessionHandler(s, msh, types) ==
  [ s EXCEPT
    !.m_messageSessionHandlerChat = IF "Chat" \in types \/ types = { } THEN msh ELSE @,
    !.m_messageSessionHandlerNormal = IF "Normal" \in types \/ types = { } THEN msh ELSE @,
    !.m_messageSessionHandlerGroupchat =
       IF "Groupchat" \in types \/ types = { } THEN msh ELSE @,
    !.m_messageSessionHandlerHeadline =
       IF "Headline" \in types \/ types = { } THEN msh ELSE @ ]

RegisterMessageSessionHandlerOp(Mshs, Types) ==
  \E msh \in Mshs, types \in Types :
    Commit(registerMessageSessionHandler(
             Call(St, "registerMessageSessionHandler", msh, 0), msh, types))

\* ClientBase::registerMessageSession, for a session the user made
RegisterMessageSessionOp(Sessions) ==
  \E session \in Sessions :
    Commit(registerMessageSession(Call(St, "registerMessageSession", "", 0), session))

\* ClientBase::registerMessageHandler, removeMessageHandler
RegisterMessageHandlerOp(Mhs) ==
  \E mh \in Mhs :
    LET s == Call(St, "registerMessageHandler", mh, 0)
    IN  Commit(IF mh # Null THEN [ s EXCEPT !.m_messageHandlers = Append(@, mh) ] ELSE s)

RemoveMessageHandlerOp(Mhs) ==
  \E mh \in Mhs :
    LET s == Call(St, "removeMessageHandler", mh, 0)
    IN  Commit(IF mh # Null
                 THEN [ s EXCEPT !.m_messageHandlers = SelectSeq(@, LAMBDA x : x # mh) ]
                 ELSE s)

MessageTag(type, from, thread, exts, mucOp) ==
  [ NoTag EXCEPT !.name = "message", !.xmlns = XMLNS_CLIENT, !.type = type,
                 !.from = from, !.thread = thread, !.exts = exts, !.mucOp = mucOp ]

\* a message arrives
RecvMessageOp(Tags, Layers) ==
  \E t \in Tags : Receive("recvMessage", "tag", t, Layers, { "none" })

-----------------------------------------------------------------------------
(* Spec: the transform chain.  Both stages come and go, the peer layers    *)
(* its data any way; no listeners, no stream management.                   *)

ChainConnect == ConnectOp(BOOLEAN, BOOLEAN, { TRUE })
ChainRecvNegotiation == RecvNegotiationOp({ ProceedTag, CompressedTag }, InLayers)
ChainRecvStanza == RecvStanzaOp({ PlainTag("message", "", "chat") }, InLayers)
ChainHandshakeResult == HandleHandshakeResultOp({ "none" })
ChainHandleDisconnect == HandleDisconnectOp({ "none" })
ChainDisconnect == DisconnectOp({ "ConnUserDisconnected" }, { "none" })

Next ==
  \/ ChainConnect
  \/ HandleConnect
  \/ WhitespacePing
  \/ StartTls
  \/ SendStanza
  \/ SetEncryptionImpl
  \/ SetCompressionImpl
  \/ ChainRecvNegotiation
  \/ ChainRecvStanza
  \/ ChainHandshakeResult
  \/ ChainHandleDisconnect
  \/ ChainDisconnect

Spec == Init /\ [][Next]_vars

-----------------------------------------------------------------------------
(* SpecSession: the session life cycle with connection listeners.  Both    *)
(* stages are installed, the peer follows the negotiated chain; no stream  *)
(* management.                                                             *)

SessConnect == ConnectOp({ TRUE }, { TRUE }, { TRUE })
SessRegisterListener == RegisterConnectionListenerOp(Listeners, MaxListenerList)
SessRemoveListener == RemoveConnectionListenerOp(Listeners)
SessRecvStreamOpen == RecvStreamOpenOp(Versions, { << "s1" >> }, { PeerLayers }, Scripts)
SessRecvStreamError == RecvStreamErrorOp({ << >> }, { PeerLayers }, Scripts)
SessRecvStreamClosed == RecvStreamClosedOp({ PeerLayers }, Scripts)
SessRecvGarbage == RecvGarbageOp({ PeerLayers }, Scripts)
SessRecvNegotiation == RecvNegotiationOp({ ProceedTag, CompressedTag }, { PeerLayers })
SessHandshakeResult == HandleHandshakeResultOp(Scripts)
SessHandleDisconnect == HandleDisconnectOp(Scripts)
SessDisconnect == DisconnectOp({ "ConnUserDisconnected", "ConnTlsFailed" }, Scripts)

NextSession ==
  \/ SessConnect
  \/ HandleConnect
  \/ WhitespacePing
  \/ SessRegisterListener
  \/ SessRemoveListener
  \/ SessRecvStreamOpen
  \/ SessRecvStreamError
  \/ SessRecvStreamClosed
  \/ SessRecvGarbage
  \/ SessRecvNegotiation
  \/ SessHandshakeResult
  \/ SessHandleDisconnect
  \/ SessDisconnect

SpecSession == Init /\ [][NextSession]_vars

-----------------------------------------------------------------------------
(* SpecSm: the stream-management queue across disconnects.  One listener,  *)
(* TLS installed, no compression, no inbound stanzas.                      *)

SmConnect == ConnectOp({ TRUE }, { FALSE }, { TRUE })
SmRegisterListener == RegisterConnectionListenerOp({ 1 }, 1)
SmRecvStreamOpen == RecvStreamOpenOp({ << >> }, { << "s1" >> }, { PeerLayers }, Scripts)
SmRecvStreamError == RecvStreamErrorOp({ << >> }, { PeerLayers }, Scripts)
SmRecvStreamClosed == RecvStreamClosedOp({ PeerLayers }, Scripts)
SmRecvGarbage == RecvGarbageOp({ PeerLayers }, Scripts)
SmRecvNegotiation == RecvNegotiationOp({ ProceedTag, EnabledTag }, { PeerLayers })
SmHandshakeResult == HandleHandshakeResultOp(Scripts)
SmHandleDisconnect == HandleDisconnectOp(Scripts)
SmDisconnect == DisconnectOp({ "ConnUserDisconnected" }, Scripts)

NextSm ==
  \/ SmConnect
  \/ HandleConnect
  \/ WhitespacePing
  \/ StartTls
  \/ SendStanza
  \/ CheckQueueOp
  \/ SmRegisterListener
  \/ SmRecvStreamOpen
  \/ SmRecvStreamError
  \/ SmRecvStreamClosed
  \/ SmRecvGarbage
  \/ SmRecvNegotiation
  \/ SmHandshakeResult
  \/ SmHandleDisconnect
  \/ SmDisconnect

SpecSm == Init /\ [][NextSm]_vars

-----------------------------------------------------------------------------
(* SpecStream: stream headers with every `version` attribute of up to      *)
(* MaxVerLen characters; no TLS, no compression, no listeners.             *)

AllVersions == UNION { [ 1..n -> VerChars ] : n \in 0..MaxVerLen }

StreamConnect == ConnectOp({ FALSE }, { FALSE }, { TRUE })
\* the peer names every stream it opens differently
StreamRecvStreamOpen ==
  RecvStreamOpenOp(AllVersions, { IF m_sid = << "s1" >> THEN << "s2" >> ELSE << "s1" >> },
                   { << >> }, { "none" })
StreamDisconnect == DisconnectOp({ "ConnUserDisconnected" }, { "none" })

NextStream ==
  \/ StreamConnect
  \/ HandleConnect
  \/ StreamRecvStreamOpen
  \/ StreamDisconnect

SpecStream == Init /\ [][NextStream]_vars

-----------------------------------------------------------------------------
(* SpecIq: tracked IQ sends, their answers, removeIDHandler.               *)

PlainConnect == ConnectOp({ FALSE }, { FALSE }, { TRUE })

IqSend == SendIqOp(IqHandlers, { << >>, << "a" >> }, { "get" }, { 1, 2 }, { FALSE })
IqSendUntracked ==
  \/ SendIqOp({ Null }, { << "a" >> }, { "set" }, { 1 }, { FALSE })
  \/ SendIqOp({ "ih1" }, { << "a" >> }, { "result" }, { 1 }, { FALSE })
IqRemoveIDHandler == RemoveIDHandlerOp(IqHandlers)
IqRecv == RecvIqOp({ "get", "result", "error" }, DOMAIN m_iqIDHandlers \cup { << "a" >> },
                   { << >> }, { { } }, { << >> })

NextIq ==
  \/ PlainConnect
  \/ HandleConnect
  \/ IqSend
  \/ IqSendUntracked
  \/ IqRemoveIDHandler
  \/ IqRecv

SpecIq == Init /\ [][NextIq]_vars

-----------------------------------------------------------------------------
(* SpecIqExt: inbound IQs and the extension handlers.                      *)

IqExtRegister == RegisterIqHandlerOp(IqHandlers, { ExtUser })
IqExtRemove ==
  \/ RemoveIqHandlerOp(IqHandlers, { ExtUser })
  \/ RemoveIqHandlerOp({ This }, { ExtPing })
IqExtSend == SendIqOp({ "ih1" }, { << "a" >> }, { "get" }, { 1 }, { FALSE })
IqExtRecv ==
  RecvIqOp({ "get", "set", "result", "error", "" }, { << "a" >> },
           { << >>, << ExtUser >>, << ExtPing >>, << ExtUser, ExtPing >>,
             << ExtPing, ExtUser >> },
           SUBSET IqHandlers, { << >> })

NextIqExt ==
  \/ PlainConnect
  \/ HandleConnect
  \/ IqExtRegister
  \/ IqExtRemove
  \/ IqExtSend
  \/ IqExtRecv

SpecIqExt == Init /\ [][NextIqExt]_vars

-----------------------------------------------------------------------------
(* SpecMsg: inbound messages and the message registries.                   *)

MsgSessions ==
  { Session(JID("alice", "r1"), "", FALSE, { }),
    Session(JID("alice", ""), "t1", TRUE, { "Chat" }),
    Session(JID("alice", "r2"), "t1", TRUE, { "Normal" }) }

MsgTags ==
  { MessageTag(type, JID("alice", r), thread, << >>, "") :
      type \in { "chat", "" }, r \in { "r1", "r2" }, thread \in { "", "t1", "t2" } }
    \cup { MessageTag("", JID("room", "nick"), "", << ExtMUCUser >>, op) :
             op \in { "OpInviteFrom", "OpNone" } }

MsgRegisterMUCInvitationHandler == RegisterMUCInvitationHandlerOp({ "mih1" })
MsgRegisterMessageSessionHandler == RegisterMessageSessionHandlerOp({ "msh1" }, { { "Chat" } })
MsgRegisterMessageSession == RegisterMessageSessionOp(MsgSessions)
MsgRegisterMessageHandler == RegisterMessageHandlerOp(MessageHandlers)
MsgRemoveMessageHandler == RemoveMessageHandlerOp(MessageHandlers)
MsgRecv == RecvMessageOp(MsgTags, { << >> })

NextMsg ==
  \/ PlainConnect
  \/ HandleConnect
  \/ MsgRegisterMUCInvitationHandler
  \/ RemoveMUCInvitationHandlerOp
  \/ MsgRegisterMessageSessionHandler
  \/ MsgRegisterMessageSession
  \/ MsgRegisterMessageHandler
  \/ MsgRemoveMessageHandler
  \/ MsgRecv

SpecMsg == Init /\ [][NextMsg]_vars

-----------------------------------------------------------------------------
(* SpecId: the ids of one ClientBase, handed out to the application and to *)
(* tracked sends without an id, over connects and disconnects.             *)

IdSend == SendIqOp({ "ih1" }, { << >> }, { "get" }, { 1 }, { FALSE })
IdDisconnect == DisconnectOp({ "ConnUserDisconnected" }, { "none" })

NextId ==
  \/ PlainConnect
  \/ HandleConnect
  \/ GetIDOp
  \/ IdSend
  \/ IdDisconnect

SpecId == Init /\ [][NextId]_vars

-----------------------------------------------------------------------------
(* SpecOrder: runs of stanzas under every chain.  Both stages installed,   *)
(* the peer follows the negotiated chain; stream management stays off (its *)
(* sends are those of SpecSm).                                             *)

OrderRecvNegotiation == RecvNegotiationOp({ ProceedTag, CompressedTag }, { PeerLayers })
OrderHandshakeResult == HandleHandshakeResultOp({ "none" })
OrderSendSequence == SendSequenceOp(UNION { [ 1..n -> Stanzas ] : n \in 0..MaxBurst })
OrderDisconnect == DisconnectOp({ "ConnUserDisconnected" }, { "none" })

NextOrder ==
  \/ SessConnect
  \/ HandleConnect
  \/ OrderRecvNegotiation
  \/ OrderHandshakeResult
  \/ OrderSendSequence
  \/ OrderDisconnect

SpecOrder == Init /\ [][NextOrder]_vars

-----------------------------------------------------------------------------
(* SpecDispatch: the routes of inbound tags.  No TLS, no compression, no   *)
(* listeners; the peer opens the stream, enables stream management, and    *)
(* sends stanzas, foreign tags and tags of unknown names.                  *)

XmlnsForeign == "urn:foreign"
XmlnsOther == "urn:other"

DispatchStanzaTags ==
  StanzaTags \cup { PlainTag("presence", "", "unsubscribed"),
                    PlainTag("presence", XMLNS_CLIENT, "unavailable") }

DispatchOtherTags ==
  { PlainTag("x", XmlnsForeign, ""), PlainTag("x", XmlnsOther, ""),
    PlainTag("iq", XmlnsForeign, "get"), PlainTag("error", XmlnsForeign, ""),
    PlainTag("bogus", XMLNS_CLIENT, ""), PlainTag("stream", "", ""),
    PlainTag("features", XMLNS_CLIENT, "") }

DispRecvStreamOpen ==
  RecvStreamOpenOp({ << >>, << "1", ".", "0" >> }, { << "s1" >> }, { << >> }, { "none" })
DispRecvStreamError == RecvStreamErrorOp({ << >> }, { << >> }, { "none" })
DispRecvNegotiation == RecvNegotiationOp({ EnabledTag, FeaturesTag }, { << >> })
DispRecvStanza == RecvStanzaOp(DispatchStanzaTags, { << >> })
DispRecvOther == RecvOtherOp(DispatchOtherTags, { << >> })
DispRegisterTagHandler ==
  RegisterTagHandlerOp(TagHandlers \cup { Null }, { "x", "iq", "" }, { XmlnsForeign })
DispRemoveTagHandler == RemoveTagHandlerOp(TagHandlers, { "x", "iq" }, { XmlnsForeign })
DispDisconnect == DisconnectOp({ "ConnUserDisconnected" }, { "none" })

NextDispatch ==
  \/ PlainConnect
  \/ HandleConnect
  \/ DispRecvStreamOpen
  \/ DispRecvStreamError
  \/ DispRecvNegotiation
  \/ DispRecvStanza
  \/ DispRecvOther
  \/ DispRegisterTagHandler
  \/ DispRemoveTagHandler
  \/ DispDisconnect

SpecDispatch == Init /\ [][NextDispatch]_vars

-----------------------------------------------------------------------------
(* SpecSasl: SASL under every mechanism on a connected stream with a TLS   *)
(* layer installed; the server sends SCRAM challenges, with and without    *)
(* salt, and <success/> payloads of the form name value, the value one     *)
(* signature or nothing.                                                   *)

AttrV == << 118, 61 >>
AttrE == << 101, 61 >>

\* the texts of the challenges: a SCRAM server-first message
\* ("r=0aS,s=cw==,i=1"), one without s= ("r=0aS,i=1"), a DIGEST-MD5
\* challenge (realm="r",nonce="n"), one without nonce (realm="r"), and an
\* rspauth ("rspauth=x")
ChallengeScram == << 114, 61, 48, 97, 83, 44, 115, 61, 99, 119, 61, 61, 44, 105, 61, 49 >>
ChallengeNoSalt == << 114, 61, 48, 97, 83, 44, 105, 61, 49 >>
ChallengeDigest == << 114, 101, 97, 108, 109, 61, 34, 114, 34, 44, 110, 111, 110, 99, 101, 61, 34, 110, 34 >>
ChallengeNoNonce == << 114, 101, 97, 108, 109, 61, 34, 114, 34 >>
ChallengeRspauth == << 114, 115, 112, 97, 117, 116, 104, 61, 120 >>
Challenges ==
  { ChallengeScram, ChallengeNoSalt, ChallengeDigest, ChallengeNoNonce, ChallengeRspauth }

\* what getRandom returns
Randoms == { << 48, 97 >> }

SaslConnect == ConnectOp({ TRUE }, { FALSE }, { TRUE })
SaslStart == Connected /\ StartSASLOp(SaslMechs, { TRUE }, Randoms)
SaslChallenge ==
  /\ Connected
  /\ ProcessSASLChallengeOp({ ChallengeScram, ChallengeNoSalt }, { TRUE }, Randoms,
                            ServerSignatures)
SaslSuccess ==
  Connected /\ ProcessSASLSuccessOp({ AttrV, AttrE }, ServerSignatures \cup { << >> })

NextSasl ==
  \/ SaslConnect
  \/ HandleConnect
  \/ SaslStart
  \/ SaslChallenge
  \/ SaslSuccess

SpecSasl == Init /\ [][NextSasl]_vars

-----------------------------------------------------------------------------
(* SpecAuth: the first message of every mechanism and the answer to a      *)
(* challenge, under every setting of the authorization identity, the       *)
(* authentication identity and the allowed mechanisms.                     *)

Authzids == { << >>, << 122, 64, 104 >> }
Authcids == { << >>, << 99 >> }

AuthSetAuthzid == SetAuthzidOp(Authzids)
AuthSetAuthcid == SetAuthcidOp(Authcids)
AuthSetSASLMechanisms ==
  SetSASLMechanismsOp({ SaslMechAll, SaslMechAll \ { SaslMechScramSha1Plus } })
AuthStart == Connected /\ StartSASLOp(SaslMechs, BOOLEAN, Randoms)
AuthChallenge ==
  Connected /\ ProcessSASLChallengeOp(Challenges, BOOLEAN, Randoms, { << 1, 255 >> })

NextAuth ==
  \/ SaslConnect
  \/ HandleConnect
  \/ AuthSetAuthzid
  \/ AuthSetAuthcid
  \/ AuthSetSASLMechanisms
  \/ AuthStart
  \/ AuthChallenge

SpecAuth == Init /\ [][NextAuth]_vars

-----------------------------------------------------------------------------
(* SpecFrame: what touches the activation flags.  Both stages installed,   *)
(* the peer follows the negotiated chain or sends garbage; sends, SASL     *)
(* steps and registry operations in every chain state.                     *)

FrameRecvNegotiation == RecvNegotiationOp({ ProceedTag, CompressedTag }, { PeerLayers })
FrameHandshakeResult == HandleHandshakeResultOp({ "none" })
FrameRecvStanza == RecvStanzaOp({ PlainTag("message", "", "chat") }, { PeerLayers })
FrameRecvGarbage == RecvGarbageOp({ PeerLayers }, { "none" })
FrameRecvStreamError == RecvStreamErrorOp({ << >> }, { PeerLayers }, { "none" })
FrameStart == StartSASLOp({ SaslMechScramSha1 }, { TRUE }, Randoms)
FrameChallenge ==
  ProcessSASLChallengeOp({ ChallengeScram, ChallengeNoSalt }, { TRUE }, Randoms,
                         { [ i \in 1..SigLen |-> 0 ] })
FrameSuccess == ProcessSASLSuccessOp({ AttrV }, { << >> })
FrameRegisterListener == RegisterConnectionListenerOp({ 1 }, 1)
FrameRemoveListener == RemoveConnectionListenerOp({ 1 })
FrameRegisterTagHandler == RegisterTagHandlerOp({ "th1" }, { "x" }, { XmlnsForeign })
FrameRemoveTagHandler == RemoveTagHandlerOp({ "th1" }, { "x" }, { XmlnsForeign })
FrameHandleDisconnect == HandleDisconnectOp({ "ping" })
FrameDisconnect == DisconnectOp({ "ConnUserDisconnected" }, { "ping" })

NextFrame ==
  \/ SessConnect
  \/ HandleConnect
  \/ WhitespacePing
  \/ SendStanza
  \/ FrameRecvNegotiation
  \/ FrameHandshakeResult
  \/ FrameRecvStanza
  \/ FrameRecvGarbage
  \/ FrameRecvStreamError
  \/ FrameStart
  \/ FrameChallenge
  \/ FrameSuccess
  \/ FrameRegisterListener
  \/ FrameRemoveListener
  \/ FrameRegisterTagHandler
  \/ FrameRemoveTagHandler
  \/ FrameHandleDisconnect
  \/ FrameDisconnect

SpecFrame == Init /\ [][NextFrame]_vars

-----------------------------------------------------------------------------
(* SpecThreads: one thread dispatching inbound IQs, one thread removing id *)
(* handlers and one sending tracked IQs, interleaved at the unlocks of     *)
(* m_iqHandlerMapMutex.                                                    *)

ThreadsSend == SendIqOp({ "ih1", "ih2" }, { << "a" >> }, { "get" }, { 1 }, { FALSE })
ThreadsNotifyFind == NotifyFindOp({ "result", "get" }, { << "a" >> })
ThreadsRemoveBody == RemoveIDHandlerBodyOp({ "ih1", "ih2" })

NextThreads ==
  \/ PlainConnect
  \/ HandleConnect
  \/ ThreadsSend
  \/ ThreadsNotifyFind
  \/ NotifyCallOp
  \/ NotifyEraseOp
  \/ ThreadsRemoveBody
  \/ RemoveIDHandlerReturnOp

SpecThreads == Init /\ [][NextThreads]_vars

-----------------------------------------------------------------------------
(* SpecPresence: inbound presence and the two presence registries.         *)

PresenceJids == { JID("alice", "r1"), JID("bob", ""), NoJID }

PresRegister == RegisterPresenceHandlerOp(PresenceHandlers \cup { Null })
PresRemove == RemovePresenceHandlerOp(PresenceHandlers \cup { Null })
PresRegisterJid == RegisterPresenceJidHandlerOp(PresenceJids, PresenceHandlers \cup { Null })
PresRemoveJid == RemovePresenceJidHandlerOp(PresenceJids, PresenceHandlers \cup { Null })
PresRecv ==
  RecvPresenceOp({ "", "unavailable" },
                 { JID("alice", "r1"), JID("alice", "r2"), JID("bob", "r1"), JID("carol", "") })

NextPresence ==
  \/ PlainConnect
  \/ HandleConnect
  \/ PresRegister
  \/ PresRemove
  \/ PresRegisterJid
  \/ PresRemoveJid
  \/ PresRecv

SpecPresence == Init /\ [][NextPresence]_vars

-----------------------------------------------------------------------------
(* SpecRemove: the eight handler registries, with registrations, removals  *)
(* and the dispatch of each.  At most MaxRegistered entries are registered *)
(* at a time, over all the registries; a tracked send counts for good.     *)
(* A removal names a handler that has an entry in the registry, under the  *)
(* key of the removal or under another.                                    *)

Registered(s) ==
  Len(s.m_presenceHandlers) + Len(s.m_presenceJidHandlers) + Len(s.m_messageHandlers)
    + Len(s.m_subscriptionHandlers) + Len(s.m_tagHandlers) + Len(s.m_connectionListeners)
    + Len(SelectSeq(s.m_iqExtHandlers, LAMBDA e : e.ih # This)) + Len(s.iqRegs)

Room == Registered(St) < MaxRegistered

Range(seq) == { seq[i] : i \in DOMAIN seq }

RemoveJids == { JID("alice", "r1"), JID("bob", "") }

RemRegisterPresence == Room /\ RegisterPresenceHandlerOp(PresenceHandlers)
RemRemovePresence == RemovePresenceHandlerOp(PresenceHandlers \cap Range(m_presenceHandlers))
RemRegisterJid == Room /\ RegisterPresenceJidHandlerOp(RemoveJids, PresenceHandlers)
RemRemoveJid ==
  RemovePresenceJidHandlerOp(RemoveJids,
                             { t.ph : t \in Range(m_presenceJidHandlers) } \cup { Null })
RemRegisterSubscription == Room /\ RegisterSubscriptionHandlerOp(SubscriptionHandlers)
RemRemoveSubscription ==
  RemoveSubscriptionHandlerOp(SubscriptionHandlers \cap Range(m_subscriptionHandlers))
RemRegisterMessage == Room /\ RegisterMessageHandlerOp(MessageHandlers)
RemRemoveMessage == RemoveMessageHandlerOp(MessageHandlers \cap Range(m_messageHandlers))
RemRegisterTag == Room /\ RegisterTagHandlerOp(TagHandlers, { "x", "y" }, { XmlnsForeign })
RemRemoveTag ==
  RemoveTagHandlerOp({ t.th : t \in Range(m_tagHandlers) }, { "x", "y" }, { XmlnsForeign })
RemRegisterListener == Room /\ RegisterConnectionListenerOp(Listeners, MaxListenerList)
RemRemoveListener == RemoveConnectionListenerOp(Listeners \cap Range(m_connectionListeners))
RemRegisterIq == Room /\ RegisterIqHandlerOp(IqHandlers, { ExtUser, ExtPing })
RemRemoveIq ==
  RemoveIqHandlerOp({ t.ih : t \in Range(m_iqExtHandlers) } \ { This }, { ExtUser, ExtPing })
RemSendIq ==
  /\ Room
  /\ \/ SendIqOp({ "ih1" }, { << "a" >> }, { "get" }, { 1 }, { FALSE })
     \/ SendIqOp({ "ih2" }, { << "b" >> }, { "get" }, { 1 }, { FALSE })
RemRemoveID == RemoveIDHandlerOp({ m_iqIDHandlers[id].ih : id \in DOMAIN m_iqIDHandlers })
RemRecvPresence ==
  RecvPresenceOp({ "", "subscribe" }, { JID("alice", "r2") })
RemRecvMessage == RecvMessageOp({ MessageTag("", JID("alice", "r1"), "", << >>, "") }, { << >> })
RemRecvOther ==
  RecvOtherOp({ PlainTag("x", XmlnsForeign, ""), PlainTag("y", XmlnsForeign, "") }, { << >> })
RemRecvIq ==
  \/ RecvIqOp({ "result" }, { << "a" >>, << "b" >> }, { << >> }, { { } }, { << >> })
  \/ RecvIqOp({ "get" }, { << "c" >> }, { << ExtUser >>, << ExtPing >> }, { { } }, { << >> })
RemDisconnect == DisconnectOp({ "ConnUserDisconnected" }, { "none" })

NextRemove ==
  \/ PlainConnect
  \/ HandleConnect
  \/ RemRegisterPresence
  \/ RemRemovePresence
  \/ RemRegisterJid
  \/ RemRemoveJid
  \/ RemRegisterSubscription
  \/ RemRemoveSubscription
  \/ RemRegisterMessage
  \/ RemRemoveMessage
  \/ RemRegisterTag
  \/ RemRemoveTag
  \/ RemRegisterListener
  \/ RemRemoveListener
  \/ RemRegisterIq
  \/ RemRemoveIq
  \/ RemSendIq
  \/ RemRemoveID
  \/ RemRecvPresence
  \/ RemRecvMessage
  \/ RemRecvOther
  \/ RemRecvIq
  \/ RemDisconnect

SpecRemove == Init /\ [][NextRemove]_vars

-----------------------------------------------------------------------------
(* SpecError: stream errors with up to MaxChildren children, recognised    *)
(* conditions and others, with and without the namespace attribute, texts  *)
(* with and without xml:lang, over several sessions.                       *)

ErrorChild ==
  { Child("conflict", XMLNS_XMPP_STREAM, "", ""), Child("conflict", "", "", ""),
    Child("host-gone", XMLNS_XMPP_STREAM, "", ""),
    Child("see-other-host", XMLNS_XMPP_STREAM, "", "h1"),
    Child("text", XMLNS_XMPP_STREAM, "", "t1"), Child("text", XMLNS_XMPP_STREAM, "en", "t2"),
    Child("text", "", "en", "t1"), Child("escape-your-data", "urn:app", "", "") }

RECURSIVE SeqsUpTo(_, _)
\* the sequences over S of n elements at most
SeqsUpTo(S, n) ==
  IF n = 0
    THEN { << >> }
    ELSE LET shorter == SeqsUpTo(S, n - 1)
         IN  shorter \cup { Append(q, x) : q \in shorter, x \in S }

ErrRegisterListener == RegisterConnectionListenerOp({ 1 }, MaxListenerList)
ErrRecvStreamError == RecvStreamErrorOp(SeqsUpTo(ErrorChild, MaxChildren), { << >> }, { "none" })

NextError ==
  \/ PlainConnect
  \/ HandleConnect
  \/ ErrRegisterListener
  \/ ErrRecvStreamError

SpecError == Init /\ [][NextError]_vars

-----------------------------------------------------------------------------
(* SpecKeep: what a disconnect leaves in place.  Before it connects, the   *)
(* application registers handlers, adds a presence extension and sets its  *)
(* identities; it sends tracked IQs, stream management is enabled and      *)
(* stanzas are queued; the stream ends by disconnect, by a lost connection *)
(* or by a stream error, and is connected again.  Each registry gets one   *)
(* entry at most; the listeners send at most a whitespace ping.            *)

PresenceExtensionTypes == { "ExtCaps" }

KeepRegisterPresence ==
  ~m_connection /\ m_presenceHandlers = << >> /\ RegisterPresenceHandlerOp({ "ph1" })
KeepRegisterTag ==
  /\ ~m_connection /\ m_tagHandlers = << >>
  /\ RegisterTagHandlerOp({ "th1" }, { "x" }, { XmlnsForeign })
KeepRegisterListener ==
  /\ ~m_connection /\ m_connectionListeners = << >>
  /\ RegisterConnectionListenerOp({ 1 }, MaxListenerList)
KeepSendIq == iqRegs = << >> /\ SendIqOp({ "ih1" }, { << "a" >> }, { "get" }, { 1 }, { FALSE })
KeepAddPresenceExtension ==
  /\ ~m_connection /\ m_presenceExtensions = << >>
  /\ AddPresenceExtensionOp(PresenceExtensionTypes)
KeepSetAuthzid == ~m_connection /\ SetAuthzidOp(Authzids)
KeepSetAuthcid == ~m_connection /\ m_authzid # << >> /\ SetAuthcidOp(Authcids)
KeepRecvNegotiation == RecvNegotiationOp({ EnabledTag }, { PeerLayers })
KeepRecvStreamError ==
  RecvStreamErrorOp({ << Child("conflict", XMLNS_XMPP_STREAM, "", "") >> }, { PeerLayers },
                    { "none" })
KeepHandleDisconnect == HandleDisconnectOp({ "none" })
KeepDisconnect == DisconnectOp({ "ConnUserDisconnected" }, { "none", "ping" })

NextKeep ==
  \/ SmConnect
  \/ HandleConnect
  \/ SendStanza
  \/ KeepRegisterPresence
  \/ KeepRegisterTag
  \/ KeepRegisterListener
  \/ KeepSendIq
  \/ KeepAddPresenceExtension
  \/ KeepSetAuthzid
  \/ KeepSetAuthcid
  \/ KeepRecvNegotiation
  \/ KeepRecvStreamError
  \/ KeepHandleDisconnect
  \/ KeepDisconnect

SpecKeep == Init /\ [][NextKeep]_vars

-----------------------------------------------------------------------------
(* SpecTrack: send( IQ&, IqHandler*, int, bool ) with and without a        *)
(* handler, for every subtype, with and without an id, before and after    *)
(* the connection is up.                                                   *)

TrackSend == SendIqOp({ "ih1", Null }, { << >>, << "a" >> }, IqSubtypes, { 2 }, BOOLEAN)
TrackRecv == RecvIqOp({ "result" }, DOMAIN m_iqIDHandlers, { << >> }, { { } }, { << >> })

NextTrack ==
  \/ PlainConnect
  \/ HandleConnect
  \/ TrackSend
  \/ TrackRecv

SpecTrack == Init /\ [][NextTrack]_vars

-----------------------------------------------------------------------------
(* Reading the log.                                                        *)

Events(ev) == { i \in 1..Len(trace) : trace[i].ev = ev }

\* the entry point the log belongs to
Op == IF trace = << >> THEN "" ELSE trace[1].xml

\* a stage is active when it is switched on and installed
CompOn(e) == e.compImpl /\ e.comp
EncOn(e) == e.encImpl /\ e.enc

-----------------------------------------------------------------------------
(* C1: for every send issued while the connection is Connected, the XML    *)
(* goes to Compression.compress first when compression is active, the      *)
(* compressed output goes to TLS.encrypt when encryption is active, and    *)
(* the socket gets exactly the output of the last active stage (the plain  *)
(* XML when no stage is active); TLS never gets uncompressed data while    *)
(* compression is active.                                                  *)

\* the calls a send must make, in order, given the members when it is made
ExpectedChain(e) ==
  (IF CompOn(e) THEN << [ ev |-> "compress", layers |-> << >> ] >> ELSE << >>)
    \o (IF EncOn(e)
          THEN << [ ev |-> "encrypt",
                    layers |-> IF CompOn(e) THEN << "Z" >> ELSE << >> ] >>
          ELSE << >>)
    \o << [ ev |-> "sock",
            layers |-> (IF CompOn(e) THEN << "Z" >> ELSE << >>)
                         \o (IF EncOn(e) THEN << "T" >> ELSE << >>) ] >>

C1_ChainOrder ==
  /\ \A i \in Events("send") :
       LET want == ExpectedChain(trace[i])
       IN  /\ i + Len(want) <= Len(trace)
           /\ \A k \in 1..Len(want) :
                /\ trace[i + k].ev = want[k].ev
                /\ trace[i + k].layers = want[k].layers
                /\ trace[i + k].xml = trace[i].xml
  /\ \A j \in Events("encrypt") : CompOn(trace[j]) => trace[j].layers = << "Z" >>
  /\ \A j \in Events("sock") \cup Events("encrypt") \cup Events("compress") :
       \E i \in Events("send") : i < j /\ j <= i + Len(ExpectedChain(trace[i]))

\* a send went through both stages to the socket
C1_Witness ==
  \E j \in Events("sock") :
    /\ trace[j].layers = << "Z", "T" >>
    /\ CompOn(trace[j]) /\ EncOn(trace[j])

(* C2: while encryption_active is true, whatever a send hands to the       *)
(* socket is output of TLS.encrypt, also after setEncryptionImpl and       *)
(* setCompressionImpl.                                                     *)
C2_EncryptedWhileActive ==
  \A j \in Events("sock") :
    trace[j].enc =>
      trace[j].layers # << >> /\ trace[j].layers[Len(trace[j].layers)] = "T"

(* C3: once the closing tag has been handed to the socket, or the          *)
(* connection has been closed after a fatal error, no send of any kind     *)
(* (stanza, Tag, raw XML, whitespace ping, resend from checkQueue, a send  *)
(* from inside an onDisconnect callback) hands bytes to the socket of that *)
(* connection.                                                             *)
C3_NoBytesAfterClose == \A j \in Events("sock") : ~trace[j].over

\* a send made from inside an onDisconnect callback after the stream was
\* closed, and dropped
C3_Witness ==
  \E i \in Events("onDisconnect"), j \in Events("sendDropped") :
    i < j /\ trace[j].over

(* C4: disconnect(reason) on a Connected session hands the closing tag to  *)
(* the socket exactly once when reason is not TlsFailed and sends nothing  *)
(* when it is; the closing tag goes out before the connection is asked to  *)
(* close and while encryption_active and compression_active still have the *)
(* values they had when disconnect was called.                             *)
C4_ClosingTag ==
  \A i \in Events("disconnect") :
    (trace[i].conn /\ trace[i].st = StateConnected) =>
      LET after == { j \in Events("sock") : j > i }
          closes == { j \in after : trace[j].xml = CloseTag }
      IN  /\ \E c \in Events("connDisconnect") :
               /\ c > i
               /\ \A j \in after : j < c
               /\ \A j \in after :
                    trace[j].enc = trace[i].enc /\ trace[j].comp = trace[i].comp
          /\ trace[i].reason # "ConnTlsFailed" => Cardinality(closes) = 1 /\ after = closes
          /\ trace[i].reason = "ConnTlsFailed" => after = { }
          /\ ~m_encryptionActive /\ ~m_compressionActive

\* a disconnect of an encrypted session whose closing tag went through TLS
C4_Witness ==
  \E i \in Events("disconnect"), j \in Events("sock") :
    /\ i < j /\ trace[i].st = StateConnected /\ trace[i].enc
    /\ trace[j].xml = CloseTag /\ trace[j].layers = << "T" >>

(* C5: after disconnect(reason) on a session that was connecting or        *)
(* connected, whose listeners send nothing from onDisconnect, m_smSent = 0 *)
(* and m_smHandled = 0.                                                    *)
C5_CountersZero ==
  \A i \in Events("disconnect") :
    ( /\ trace[i].conn
      /\ StateRank(trace[i].st) >= StateRank(StateConnecting)
      /\ \A j \in Events("send") \cup Events("sendDropped"),
            k \in Events("onDisconnect") : j < k ) =>
      m_smSent = 0 /\ m_smHandled = 0

\* the disconnects of the log: disconnect(reason) on a session that is
\* connecting or connected, and handleDisconnect(reason)
Disconnects ==
  { i \in Events("disconnect") :
      trace[i].conn /\ StateRank(trace[i].st) >= StateRank(StateConnecting) }
    \cup Events("handleDisconnect")

(* C6, as claimed: every disconnect is followed by onDisconnect(reason)    *)
(* exactly once for each registered listener, with both chain flags        *)
(* already false, and then by the state reset.                             *)
C6_OncePerListener ==
  \A i \in Disconnects :
    /\ \A cl \in { m_connectionListeners[k] : k \in 1..Len(m_connectionListeners) } :
         Cardinality({ j \in Events("onDisconnect") : j > i /\ trace[j].n = cl }) = 1
    /\ \A j \in Events("onDisconnect") :
         j > i /\ trace[j].reason = trace[i].reason /\ ~trace[j].enc /\ ~trace[j].comp
    /\ \E c \in Events("cleanup") : \A j \in Events("onDisconnect") : j < c

(* C6, amended: every disconnect is followed by onDisconnect(reason) once  *)
(* for each entry of the listener list, in list order (a listener          *)
(* registered n times is called n times), with both chain flags already    *)
(* false, and then by the state reset.                                     *)
C6_OncePerRegistration ==
  \A i \in Disconnects :
    LET calls == SelectSeq(trace, LAMBDA e : e.ev = "onDisconnect")
    IN  /\ Len(calls) = Len(m_connectionListeners)
        /\ \A k \in 1..Len(calls) :
             /\ calls[k].n = m_connectionListeners[k]
             /\ calls[k].reason = trace[i].reason
             /\ ~calls[k].enc /\ ~calls[k].comp
        /\ \A j \in Events("onDisconnect") : j > i
        /\ \E c \in Events("cleanup") : \A j \in Events("onDisconnect") : j < c

\* a disconnect of a session with chain flags set and two registrations
C6_Witness ==
  \E i \in Disconnects :
    /\ trace[i].enc /\ trace[i].comp
    /\ Len(m_connectionListeners) = 2
    /\ Cardinality(Events("onDisconnect")) = 2

-----------------------------------------------------------------------------
\* the stream header of the log was accepted: m_sid is its id, the
\* start-node hook ran, nothing disconnected
StreamAccepted(i) ==
  /\ m_sid = trace[i].info.id
  /\ Events("handleStartNode") # { }
  /\ Events("disconnect") = { }
  /\ connectionState = StateConnected

\* ... or refused: disconnect(ConnStreamVersionError), m_sid as it was
StreamRefused(i) ==
  /\ m_sid = trace[i].sid
  /\ Events("handleStartNode") = { }
  /\ \E j \in Events("disconnect") : j > i /\ trace[j].reason = "ConnStreamVersionError"
  /\ connectionState = StateDisconnected

\* the part of a version before its first dot (all of it when it has none)
BeforeDot(v) ==
  IF \E d \in 1..Len(v) : v[d] = "."
    THEN SubSeq(v, 1, (CHOOSE d \in 1..Len(v) :
                         v[d] = "." /\ \A j \in 1..(d - 1) : v[j] # ".") - 1)
    ELSE v

IsDigit(c) == c \in { "0", "1", "2" }

\* the leading digits of p, without leading zeros
LeadingNumber(p) ==
  LET k == CHOOSE n \in 0..Len(p) :
             /\ \A j \in 1..n : IsDigit(p[j])
             /\ n < Len(p) => ~IsDigit(p[n + 1])
      z == CHOOSE n \in 0..k :
             /\ \A j \in 1..n : p[j] = "0"
             /\ n < k => p[n + 1] # "0"
  IN  SubSeq(p, z + 1, k)

\* a major number of at least 1, at least 2
NumberAtLeast1(q) == Len(q) >= 1
NumberAtLeast2(q) == Len(q) >= 2 \/ (Len(q) = 1 /\ q[1] # "1")

-----------------------------------------------------------------------------
\* the tracked send r still has its entry in the id map
InMap(r) == \E id \in DOMAIN m_iqIDHandlers : m_iqIDHandlers[id].reg = r

\* every handleIqID call of the log answers its own tracked send: a Result
\* or Error with the same id, for the handler and with the context stored
CallbacksMatch ==
  \A i \in Events("handleIqID") :
    LET e == trace[i].info
    IN  /\ e.iq.subtype \in { "result", "error" }
        /\ e.iq.id = iqRegs[e.reg].id
        /\ e.ih = iqRegs[e.reg].ih
        /\ e.context = iqRegs[e.reg].context

(* C8, as claimed: for every IQ of subtype Get or Set sent with a handler, *)
(* exactly one of two things happens to the registration: handleIqID is    *)
(* called (once, on a Result or Error with the same id, with the stored    *)
(* context) or removeIDHandler removes it; never both, never twice.  Here: *)
(* a registration that has left the id map has seen exactly one of them.   *)
C8_ExactlyOne ==
  /\ CallbacksMatch
  /\ \A r \in DOMAIN iqRegs :
       /\ iqRegs[r].fired <= 1
       /\ ~(iqRegs[r].fired >= 1 /\ iqRegs[r].removed)
       /\ ~InMap(r) => (iqRegs[r].fired = 1 \/ iqRegs[r].removed)

(* C8, amended: for every IQ of subtype Get or Set sent with a handler, at *)
(* most one of three things happens to the registration: handleIqID is     *)
(* called (once, on a Result or Error with the same id, with the stored    *)
(* context), removeIDHandler removes it, or a later tracked send with the  *)
(* same id replaces it, and then it is never called; a registration that   *)
(* has seen none of them is still in the id map.                           *)
C8_AtMostOne ==
  /\ CallbacksMatch
  /\ \A r \in DOMAIN iqRegs :
       LET called == iqRegs[r].fired >= 1
           removed == iqRegs[r].removed
           replaced == iqRegs[r].replaced
       IN  /\ iqRegs[r].fired <= 1
           /\ ~(called /\ removed) /\ ~(called /\ replaced) /\ ~(removed /\ replaced)
           /\ InMap(r) <=> ~(called \/ removed \/ replaced)

\* a tracked send was replaced by a second one with the same id, and the
\* answer called the handler of the second
C8_Witness ==
  \E i \in Events("handleIqID"), r \in DOMAIN iqRegs :
    /\ iqRegs[r].replaced /\ iqRegs[r].fired = 0
    /\ trace[i].info.reg # r
    /\ trace[i].info.iq.id = iqRegs[r].id
    /\ iqRegs[trace[i].info.reg].fired = 1

-----------------------------------------------------------------------------
\* the IQs the log sends after entry i
RepliesAfter(i) == { j \in Events("sendIq") : j > i }

\* the error reply j answers the IQ with the given error, and goes out
IsErrorReply(j, iq, error) ==
  /\ trace[j].info.iq.subtype = "error"
  /\ trace[j].info.iq.id = iq.id
  /\ trace[j].info.iq.to = iq.from
  /\ trace[j].info.iq.error = error
  /\ \E k \in Events("sock") : k > j /\ trace[k].xml = "iq"

(* C9: an inbound Get or Set that no handler handles gets exactly one      *)
(* error reply with its id, addressed to its sender: feature-not-          *)
(* implemented when it has no extensions, service-unavailable when it has  *)
(* extensions but no registered extension handler returns true; when a     *)
(* handler returned true there is no error reply; an inbound Result or     *)
(* Error gets no reply at all.                                             *)
C9_ErrorReplies ==
  \A i \in Events("notifyIqHandlers") :
    LET iq == trace[i].info.iq
        handled == \E j \in Events("handleIq") : trace[j].info.ret
        errors == { j \in RepliesAfter(i) : trace[j].info.iq.subtype = "error" }
    IN  /\ (iq.subtype \in { "get", "set" } /\ ~handled) =>
             /\ Cardinality(errors) = 1
             /\ RepliesAfter(i) = errors
             /\ \A j \in errors :
                  IsErrorReply(j, iq, IF iq.exts = << >> THEN "feature-not-implemented"
                                                       ELSE "service-unavailable")
        /\ (iq.subtype \in { "get", "set" } /\ handled) => errors = { }
        /\ iq.subtype \in { "result", "error" } => RepliesAfter(i) = { }

\* a Get with an extension whose two handlers both return false, answered
\* with service-unavailable
C9_Witness ==
  \E i \in Events("notifyIqHandlers"), j \in Events("sendIq") :
    /\ trace[i].info.iq.subtype = "get"
    /\ Cardinality(Events("handleIq")) = 2
    /\ trace[j].info.iq.error = "service-unavailable"

-----------------------------------------------------------------------------
\* the deliveries of the log, by route
ToInvitation == Events("handleMUCInvitation")
ToSession == Events("sessionHandleMessage")
ToSessionHandler == Events("handleMessageSession")
ToGlobal == Events("handleMessage")

RouteInvitation ==
  Cardinality(ToInvitation) = 1 /\ ToSession = { } /\ ToSessionHandler = { } /\ ToGlobal = { }

\* one session of the list as it was
RouteSession ==
  /\ ToInvitation = { } /\ ToSessionHandler = { } /\ ToGlobal = { }
  /\ Cardinality(ToSession) = 1

\* a new session, at the end of the list, first handed to the session
\* handler and then given the message
RouteNewSession ==
  /\ ToInvitation = { } /\ ToGlobal = { }
  /\ Cardinality(ToSessionHandler) = 1 /\ Cardinality(ToSession) = 1
  /\ \A h \in ToSessionHandler, d \in ToSession :
       /\ h < d
       /\ trace[h].info.session = Len(m_messageSessions)
       /\ trace[d].info.session = Len(m_messageSessions)

\* every global handler, in list order
RouteGlobal ==
  /\ ToInvitation = { } /\ ToSession = { } /\ ToSessionHandler = { }
  /\ LET calls == SelectSeq(trace, LAMBDA e : e.ev = "handleMessage")
     IN  [ k \in DOMAIN calls |-> calls[k].info.mh ] = m_messageHandlers

(* C10: every inbound message takes exactly one route: the MUC invitation  *)
(* handler, or one existing MessageSession, or a new MessageSession handed *)
(* to the session handler of its subtype, or all global MessageHandlers;   *)
(* a message that went to a session or to the invitation handler reaches   *)
(* no global MessageHandler.                                               *)
C10_OneRoute ==
  Events("notifyMessageHandlers") # { } =>
    /\ Cardinality({ route \in { "invitation", "session", "new", "global" } :
         CASE route = "invitation" -> RouteInvitation
           [] route = "session" -> RouteSession
           [] route = "new" -> RouteNewSession
           [] route = "global" -> RouteGlobal }) = 1
    /\ (ToInvitation # { } \/ ToSession # { }) => ToGlobal = { }

\* a message went to an existing session although global handlers and a
\* session handler for its subtype were registered
C10_Witness ==
  /\ RouteSession
  /\ m_messageHandlers # << >>
  /\ \E i \in Events("notifyMessageHandlers") :
       /\ trace[i].info.msg.subtype = "Chat"
       /\ m_messageSessionHandlerChat # Null

-----------------------------------------------------------------------------
(* C11: while stream management is on, every stanza that was sent for the  *)
(* queue and has not been acknowledged is in m_smQueue under the key it    *)
(* was sent with, and no two such stanzas have the same key.               *)

C11_UnackedQueued ==
  m_smContext \in { CtxSMEnabled, CtxSMResumed } =>
    /\ \A i \in DOMAIN smSends :
         ~smSends[i].acked =>
           /\ smSends[i].key \in DOMAIN m_smQueue
           /\ m_smQueue[smSends[i].key].tag = i
    /\ \A i, j \in DOMAIN smSends :
         i # j /\ ~smSends[i].acked /\ ~smSends[j].acked =>
           smSends[i].key # smSends[j].key

(* C12: checkQueue(h, resend) with stream management on and h >= 0 leaves  *)
(* in the queue exactly the former entries with key > h; with resend each  *)
(* of them is sent once more, in increasing key order, without a new queue *)
(* entry and with m_smSent as it was; without resend nothing is sent.      *)
C12_Replay ==
  (Op = "checkQueue" /\ trace[1].sm /\ trace[1].n >= 0) =>
    LET h == trace[1].n
        before == trace[1].info.queue
        keep == { k \in DOMAIN before : k > h }
        resends == Events("resend")
        sends == Events("send") \cup Events("sendDropped")
    IN  /\ DOMAIN m_smQueue = keep
        /\ \A k \in keep : m_smQueue[k] = before[k]
        /\ m_smSent = trace[1].sent
        /\ Len(smSends) = trace[1].info.sends
        /\ IF trace[1].reason = "resend"
              THEN /\ { trace[i].n : i \in resends } = keep
                   /\ \A i, j \in resends : i < j => trace[i].n < trace[j].n
                   /\ \A i \in resends :
                        /\ i + 1 \in sends
                        /\ trace[i + 1].xml = before[trace[i].n].xml
                        /\ trace[i].st = StateConnected /\ trace[i].conn
                             => trace[i + 1].ev = "send"
                   /\ \A j \in sends : j - 1 \in resends
              ELSE resends = { } /\ sends = { }

\* an acknowledgement of key 1 with resend on a connected session: the entry
\* with key 1 goes, the one with key 2 stays and is sent again
C12_Witness ==
  /\ Op = "checkQueue" /\ trace[1].sm /\ trace[1].n = 1 /\ trace[1].reason = "resend"
  /\ DOMAIN trace[1].info.queue = { 1, 2 }
  /\ DOMAIN m_smQueue = { 2 }
  /\ \E i \in Events("resend"), j \in Events("sock") : trace[i].n = 2 /\ i < j

(* C13: any two calls of getID on one ClientBase return different strings. *)
C13_IdsDiffer ==
  \A i, j \in DOMAIN issuedIds : i # j => issuedIds[i] # issuedIds[j]

\* seventeen ids were handed out, the last by a tracked send after a
\* disconnect; the counter has carried into the second hex digit
C13_Witness ==
  /\ Len(issuedIds) = 17
  /\ issuedIds[17][8] = "1" /\ issuedIds[17][9] = "1"
  /\ issuedIds[1][8] = "0" /\ issuedIds[1][9] = "1"
  /\ Op = "sendIq"
  /\ \E r \in DOMAIN iqRegs : iqRegs[r].id = issuedIds[17]

(* C14: the stanzas of a run of send calls on a Connected session are      *)
(* handed to the first active stage of the chain (or to the socket when no *)
(* stage is active) in the order of the calls, each exactly once.          *)

\* the data handed to the first stage of the chain, in order
FirstStage ==
  LET sel == SelectSeq(trace, LAMBDA e : e.ev \in { "compress", "encrypt", "sock" }
                                          /\ e.layers = << >>)
  IN  [ i \in DOMAIN sel |-> sel[i].xml ]

C14_FrameOrder ==
  (Op = "sendSequence" /\ trace[1].conn /\ trace[1].st = StateConnected) =>
    /\ FirstStage = trace[1].info.seq
    /\ \A i \in Events("compress") \cup Events("encrypt") \cup Events("sock") :
         trace[i].layers = << >> =>
           trace[i].ev = (IF CompOn(trace[1]) THEN "compress"
                          ELSE IF EncOn(trace[1]) THEN "encrypt" ELSE "sock")

\* three different stanzas in a row through compression and TLS
C14_Witness ==
  /\ Op = "sendSequence" /\ trace[1].conn /\ trace[1].st = StateConnected
  /\ CompOn(trace[1]) /\ EncOn(trace[1])
  /\ trace[1].info.seq = << "presence", "iq", "message" >>
  /\ Cardinality(Events("sock")) = 3

(* C15: when the parser rejects inbound data, the stream-error element     *)
(* goes to the socket, then disconnect( ConnParseError ) runs: the closing *)
(* tag and the listeners' onDisconnect( ConnParseError ) come after the    *)
(* stream-error element.                                                   *)
C15_ParseError ==
  \A i \in Events("parseError") :
    \E e \in Events("sock"), d \in Events("disconnect") :
      /\ i < e /\ e < d
      /\ trace[e].xml = StreamErrorXml
      /\ trace[d].reason = "ConnParseError"
      /\ \A k \in Events("sock") : k > i /\ k # e => k > d /\ trace[k].xml = CloseTag
      /\ \E k \in Events("sock") : k > d /\ trace[k].xml = CloseTag
      /\ \A o \in Events("onDisconnect") : o > d /\ trace[o].reason = "ConnParseError"
      /\ { trace[o].n : o \in Events("onDisconnect") }
           = { m_connectionListeners[l] : l \in DOMAIN m_connectionListeners }

\* garbage arrives through TLS and compression, with a listener registered
C15_Witness ==
  \E i \in Events("parseError"), o \in Events("onDisconnect") :
    /\ i < o
    /\ trace[i].enc /\ trace[i].comp
    /\ trace[o].reason = "ConnParseError"

(* C16: a TLS handshake that succeeded and whose certificate every         *)
(* connection listener accepted leaves encryption_active true and re-opens *)
(* the stream with one stream header, which reaches the socket as TLS      *)
(* output; a failed handshake, or a listener that rejects, sends no stream *)
(* header and disconnects with ConnTlsFailed.                              *)

HandshakeAccepted ==
  /\ trace[1].info.success
  /\ \A l \in DOMAIN m_connectionListeners :
       m_connectionListeners[l] \notin trace[1].info.reject

C17_ScramVerifies ==
  Op = "processSASLSuccess" =>
    LET decoded == decode64(trace[1].info.payload)
        ret == trace[Len(trace)].info.ret
    IN  IF m_selectedSaslMech \in { SaslMechScramSha1, SaslMechScramSha1Plus }
          THEN ret => /\ Len(decoded) >= 2
                      /\ SubSeq(decoded, 1, 2) = AttrV
                      /\ decode64(Substr(decoded, 2)) = m_serverSignature
          ELSE ret

(* C18: no user handler is called with a registry mutex held: handleIqID   *)
(* runs with m_iqHandlerMapMutex unlocked, and every extension handler's   *)
(* handleIq runs with m_iqExtHandlerMapMutex unlocked.                     *)
C18_NoHandlerUnderMutex ==
  /\ \A i \in Events("handleIqID") : ~trace[i].idMutex
  /\ \A i \in Events("handleIq") : ~trace[i].extMutex

\* the tag the last entry point handed to handleTag, and the route the claim
\* gives it
ParsedTags == { trace[i].info.tag : i \in Events("parsed") }

RouteEvents ==
  { "streamOpen", "handleStreamError", "handleNormalNode", "notifyIqHandlers",
    "notifyMessageHandlers", "notifySubscriptionHandlers", "notifyPresenceHandlers",
    "invalidStanza", "notifyTagHandlers" }

StanzaRoutes ==
  { "notifyIqHandlers", "notifyMessageHandlers", "notifySubscriptionHandlers",
    "notifyPresenceHandlers" }

ExpectedRoute(tag) ==
  IF tag.name = "stream" /\ tag.xmlns = XMLNS_STREAM THEN "streamOpen"
  ELSE IF tag.name = "error" /\ tag.xmlns = XMLNS_STREAM THEN "handleStreamError"
  ELSE IF NormalNodeConsumes(tag) THEN "handleNormalNode"
  ELSE IF tag.xmlns \in { "", XMLNS_CLIENT }
    THEN CASE tag.name = "iq" -> "notifyIqHandlers"
           [] tag.name = "message" -> "notifyMessageHandlers"
           [] tag.name = "presence" ->
                IF tag.type \in { "subscribe", "subscribed", "unsubscribe", "unsubscribed" }
                  THEN "notifySubscriptionHandlers"
                  ELSE "notifyPresenceHandlers"
           [] OTHER -> "invalidStanza"
  ELSE "notifyTagHandlers"

RoutesTaken ==
  LET evs == SelectSeq(trace, LAMBDA e : e.ev \in RouteEvents)
  IN  [ k \in 1..Len(evs) |-> evs[k].ev ]

CalledTagHandlers ==
  LET evs == SelectSeq(trace, LAMBDA e : e.ev = "TagHandler::handleTag")
  IN  [ k \in 1..Len(evs) |-> evs[k].reason ]

MatchingTagHandlers(tag) ==
  LET m == SelectSeq(m_tagHandlers, LAMBDA h : h.tag = tag.name /\ h.xmlns = tag.xmlns)
  IN  [ k \in 1..Len(m) |-> m[k].th ]

(* C19: every tag handed to dispatch takes exactly one route, the one the  *)
(* priority list gives it (stream open, stream error, negotiation hook,    *)
(* stanza by name or ignored, tag handlers), and the tag handlers called   *)
(* are those registered for its (name, xmlns) on the tag-handler route and *)
(* none on any other.                                                      *)
C19_Routing ==
  \A tag \in ParsedTags :
    ~tag.null =>
      /\ RoutesTaken = << ExpectedRoute(tag) >>
      /\ CalledTagHandlers =
           IF ExpectedRoute(tag) = "notifyTagHandlers"
             THEN MatchingTagHandlers(tag)
             ELSE << >>

C19_Witness ==
  \E tag \in ParsedTags :
    /\ ExpectedRoute(tag) = "notifyTagHandlers"
    /\ Len(CalledTagHandlers) = 1
    /\ Len(m_tagHandlers) = 2

(* C20: handling one inbound tag adds exactly one to m_smHandled when      *)
(* stream management is enabled and the tag is dispatched as IQ, Message,  *)
(* Presence or Subscription, and leaves m_smHandled unchanged otherwise.   *)
C20_Counting ==
  \A i \in Events("parsed") :
    LET tag == trace[i].info.tag
    IN  ~tag.null =>
          m_smHandled = trace[i].handled
                          + (IF trace[i].sm /\ ExpectedRoute(tag) \in StanzaRoutes
                               THEN 1 ELSE 0)

C20_Witness ==
  \E i \in Events("parsed") :
    /\ ExpectedRoute(trace[i].info.tag) = "notifySubscriptionHandlers"
    /\ trace[i].sm
    /\ m_smHandled = trace[i].handled + 1

(* C21: while stream management is on, m_smSent is the number of stanzas   *)
(* that were transmitted through send( IQ / Message / Presence /           *)
(* Subscription ) since it was switched on; send( Tag* ), raw sends and    *)
(* the resends of checkQueue do not count.                                 *)
C21_SentIsWireCount ==
  SMActive(St) =>
    m_smSent = Cardinality({ i \in DOMAIN smSends : smSends[i].wire })

\* the entry points that are data arriving from the socket
RecvOps ==
  { "recvGarbage", "recvIq", "recvMessage", "recvNegotiation", "recvOther", "recvPresence",
    "recvStanza",
    "recvStreamClosed", "recvStreamError", "recvStreamOpen" }

\* what follows the log entry i, "" at the end of the log
NextEv(i) == IF i < Len(trace) THEN trace[i + 1].ev ELSE ""

(* C22: received data goes to TLS decrypt when encryption is active, else  *)
(* to decompress when compression is active, else to the parser; decrypted *)
(* data goes to decompress when compression is active, else to the parser; *)
(* decompressed data goes to the parser; the parser gets no data that      *)
(* skipped an active stage.                                                *)
C22_InboundChain ==
  Op \in RecvOps =>
    /\ NextEv(1) = IF EncOn(trace[1]) THEN "decrypt"
                   ELSE IF CompOn(trace[1]) THEN "decompress" ELSE "parse"
    /\ \A i \in Events("decrypt") :
         NextEv(i) \in { "", IF CompOn(trace[i]) THEN "decompress" ELSE "parse" }
    /\ \A i \in Events("decompress") : NextEv(i) = "parse"
    /\ \A i \in Events("parse") :
         /\ EncOn(trace[i]) => \E j \in Events("decrypt") : j < i
         /\ CompOn(trace[i]) => \E j \in Events("decompress") : j < i

\* data that passes both stages and reaches the parser as a tag
C22_Witness ==
  /\ Op \in RecvOps
  /\ Len(trace) >= 5
  /\ << trace[2].ev, trace[3].ev, trace[4].ev, trace[5].ev >>
       = << "decrypt", "decompress", "parse", "parsed" >>

\* the activation flags after the log entry i: those of the next entry, or
\* the members at the end of the entry point
FlagsAfter(i) ==
  IF i < Len(trace)
    THEN [ enc |-> trace[i + 1].enc, comp |-> trace[i + 1].comp ]
    ELSE [ enc |-> m_encryptionActive, comp |-> m_compressionActive ]

(* C23: a chain flag goes from true to false only inside disconnect or     *)
(* handleDisconnect, and from false to true only inside the negotiation    *)
(* hook; every other step of every entry point (sends, receives, dispatch, *)
(* SASL steps, registry operations) leaves both flags as they are.         *)
C23_ActivationMonotonic ==
  \A i \in 1..Len(trace) :
    LET disconnecting ==
          \E j \in 1..i : trace[j].ev \in { "disconnect", "handleDisconnect" }
        negotiating == \E j \in 1..i : trace[j].ev = "handleNormalNode"
    IN  /\ (trace[i].enc /\ ~FlagsAfter(i).enc) => disconnecting
        /\ (trace[i].comp /\ ~FlagsAfter(i).comp) => disconnecting
        /\ (~trace[i].enc /\ FlagsAfter(i).enc) => negotiating
        /\ (~trace[i].comp /\ FlagsAfter(i).comp) => negotiating

\* a SASL step on a stream with both stages on, which it leaves on
C23_Witness ==
  /\ Op = "processSASLChallenge"
  /\ trace[1].enc /\ trace[1].comp
  /\ m_encryptionActive /\ m_compressionActive

(* C24: with sends, dispatch and removeIDHandler on different threads, the *)
(* dispatch invokes no handler whose removeIDHandler has returned, and it  *)
(* erases no map entry that another thread has erased.                     *)
C24_NoUseAfterRemove ==
  /\ ~notifyThread.calledRemoved
  /\ ~notifyThread.erasedTwice

RECURSIVE HandlersToAsk(_)
\* the handlers registered for the extensions exts, extension by extension
\* and, for one extension, in registration order
HandlersToAsk(exts) ==
  IF exts = << >>
    THEN << >>
    ELSE LET sel == SelectSeq(m_iqExtHandlers, LAMBDA e : e.ext = Head(exts))
         IN  [ k \in DOMAIN sel |-> sel[k].ih ] \o HandlersToAsk(Tail(exts))

\* the handleIq calls of the log, in order
HandlersAsked == SelectSeq(trace, LAMBDA e : e.ev = "handleIq")

(* C25: the handlers of an inbound IQ with extensions are asked extension  *)
(* by extension in the order of the extensions and, for one extension, in  *)
(* registration order; after the first handler that returns true no other  *)
(* handler is asked.                                                       *)
C25_ExtensionOrder ==
  \A i \in Events("notifyIqHandlers") :
    LET iq == trace[i].info.iq
        want == HandlersToAsk(iq.exts)
        n == Len(HandlersAsked)
    IN  Events("handleIqID") = { } =>
          /\ n <= Len(want)
          /\ \A k \in 1..n : HandlersAsked[k].info.ih = want[k]
          /\ \A k \in 1..(n - 1) : ~HandlersAsked[k].info.ret
          /\ n < Len(want) => HandlersAsked[n].info.ret

\* two extensions with handlers of their own, the first of the second
\* extension's handlers returns true and the last is not asked
C25_Witness ==
  \E i \in Events("notifyIqHandlers") :
    /\ Len(trace[i].info.iq.exts) = 2
    /\ Len(HandlersAsked) = 2
    /\ Len(HandlersToAsk(trace[i].info.iq.exts)) = 3
    /\ HandlersAsked[1].info.ih # HandlersAsked[2].info.ih
    /\ HandlersAsked[2].info.ret

\* the session the message must go to: 0 when no session matches
ThreadAndTypeFit(session, msg) ==
  /\ msg.thread = "" \/ session.threadID = msg.thread \/ ~session.honorThreadID
  /\ msg.subtype \in session.types \/ session.types = { }

MatchingSession(sessions, msg) ==
  LET full == { k \in DOMAIN sessions :
                  sessions[k].target = msg.from /\ ThreadAndTypeFit(sessions[k], msg) }
      bare == { k \in DOMAIN sessions :
                  /\ sessions[k].target.bare = msg.from.bare
                  /\ ThreadAndTypeFit(sessions[k], msg) }
      first(S) == CHOOSE k \in S : \A l \in S : k <= l
  IN  IF full # { } THEN first(full) ELSE IF bare # { } THEN first(bare) ELSE 0

\* m_messageSessions before the dispatch: a new session is its last element
SessionsBefore ==
  IF ToSessionHandler = { }
    THEN m_messageSessions
    ELSE SubSeq(m_messageSessions, 1, Len(m_messageSessions) - 1)

(* C26: a message that is no MUC invitation goes to the first session of   *)
(* the list that has its full JID and fits its thread and subtype, if      *)
(* there is one, else to the first session that has its bare JID and fits, *)
(* and to that session only; when no session fits, no session of the list  *)
(* gets it.                                                                *)
C26_SessionMatching ==
  \A i \in Events("notifyMessageHandlers") :
    ToInvitation = { } =>
      LET want == MatchingSession(SessionsBefore, trace[i].info.msg)
      IN  IF want # 0
            THEN /\ ToSessionHandler = { }
                 /\ Cardinality(ToSession) = 1
                 /\ \A j \in ToSession : trace[j].info.session = want
            ELSE \A j \in ToSession : trace[j].info.session > Len(SessionsBefore)

\* the second session of the list has the full JID, the first the bare JID
\* only, both fit: the second gets the message
C26_Witness ==
  \E i \in Events("notifyMessageHandlers"), j \in ToSession :
    /\ Len(m_messageSessions) = 2
    /\ trace[j].info.session = 2
    /\ m_messageSessions[1].target.bare = trace[i].info.msg.from.bare
    /\ m_messageSessions[1].target # trace[i].info.msg.from
    /\ ThreadAndTypeFit(m_messageSessions[1], trace[i].info.msg)
    /\ ToSessionHandler = { }

\* the handlePresence calls of the log, in order
PresenceCalls ==
  LET calls == SelectSeq(trace, LAMBDA e : e.ev = "handlePresence")
  IN  [ k \in DOMAIN calls |-> [ ph |-> calls[k].info.ph, list |-> calls[k].info.list ] ]

\* the handlers registered for the bare JID, in registration order
JidHandlersOf(bare) ==
  LET sel == SelectSeq(m_presenceJidHandlers, LAMBDA t : t.jid = bare)
  IN  [ k \in DOMAIN sel |-> [ ph |-> sel[k].ph, list |-> "jid" ] ]

TrackOf(e) == [ ih |-> e.ih, context |-> e.context, del |-> e.del ]

(* C28: send( iq, ih, context, del ) stores { ih, context, del } in the id  *)
(* map under the id of the IQ iff ih is not null and the subtype is Get or *)
(* Set, after giving an IQ without an id a fresh one from getID, and       *)
(* leaves every other entry alone; otherwise the map is as it was.  In     *)
(* both cases the IQ is handed on to send( const IQ& ) once, with that id. *)
C28_TrackedSend ==
  Op = "sendIq" =>
    LET a == trace[1].info
        tracked == a.ih # Null /\ a.iq.subtype \in { "get", "set" }
        fresh == tracked /\ a.iq.id = << >>
    IN  \E j \in Events("sendIq") :
          LET id == trace[j].info.iq.id
          IN  /\ Events("sendIq") = { j }
              /\ trace[j].info.iq = [ a.iq EXCEPT !.id = id ]
              /\ \E k \in Events("send") \cup Events("sendDropped") :
                   k > j /\ trace[k].xml = "iq"
              /\ IF fresh
                    THEN /\ id # << >>
                         /\ \A n \in DOMAIN a.issued : a.issued[n] # id
                         /\ issuedIds = Append(a.issued, id)
                    ELSE id = a.iq.id /\ issuedIds = a.issued
              /\ IF tracked
                    THEN /\ DOMAIN m_iqIDHandlers = DOMAIN a.map \cup { id }
                         /\ TrackOf(m_iqIDHandlers[id]) = TrackOf(a)
                         /\ \A x \in DOMAIN a.map \ { id } : m_iqIDHandlers[x] = a.map[x]
                    ELSE m_iqIDHandlers = a.map

\* a Set without an id, sent with a handler that is to be deleted: it is
\* stored under a fresh id
C28_Witness ==
  /\ Op = "sendIq"
  /\ trace[1].info.ih # Null /\ trace[1].info.iq.subtype = "set"
  /\ trace[1].info.iq.id = << >> /\ trace[1].info.del
  /\ trace[1].info.map # << >>
  /\ Cardinality(DOMAIN m_iqIDHandlers) = Cardinality(DOMAIN trace[1].info.map) + 1

-----------------------------------------------------------------------------
(* The handler registries.                                                 *)

Registries ==
  [ presence |-> m_presenceHandlers, presenceJid |-> m_presenceJidHandlers,
    message |-> m_messageHandlers, subscription |-> m_subscriptionHandlers,
    tag |-> m_tagHandlers, listener |-> m_connectionListeners,
    iqExt |-> m_iqExtHandlers, iqId |-> m_iqIDHandlers ]

\* the registry a removal is for, and the operation that adds to a registry
RegistryOf ==
  [ removePresenceHandler |-> "presence", removePresenceJidHandler |-> "presenceJid",
    removeMessageHandler |-> "message", removeSubscriptionHandler |-> "subscription",
    removeTagHandler |-> "tag", removeConnectionListener |-> "listener",
    removeIqHandler |-> "iqExt", removeIDHandler |-> "iqId" ]

RegisterOpOf ==
  [ presence |-> "registerPresenceHandler", presenceJid |-> "registerPresenceJidHandler",
    message |-> "registerMessageHandler", subscription |-> "registerSubscriptionHandler",
    tag |-> "registerTagHandler", listener |-> "registerConnectionListener",
    iqExt |-> "registerIqHandler", iqId |-> "sendIq" ]

RemoveOps == DOMAIN RegistryOf

\* the handler a removal names, and the handler of an entry
RemovedHandler(e) == IF e.xml = "removeConnectionListener" THEN e.n ELSE e.reason

HandlerOf(reg, x) ==
  CASE reg = "presenceJid" -> x.ph
    [] reg = "tag" -> x.th
    [] reg \in { "iqExt", "iqId" } -> x.ih
    [] OTHER -> x

\* the entry x is one the removal e is for: the handler, and the JID, the
\* tag and namespace, or the extension type where the registry has one
KeyMatches(e, x) ==
  CASE e.xml = "removePresenceJidHandler" ->
         x.jid = e.info.jid.bare /\ (e.reason = Null \/ x.ph = e.reason)
    [] e.xml = "removeTagHandler" ->
         x = [ tag |-> e.info.tag, xmlns |-> e.info.xmlns, th |-> e.reason ]
    [] e.xml = "removeIqHandler" -> x = [ ext |-> e.info.ext, ih |-> e.reason ]
    [] e.xml = "removeIDHandler" -> x.ih = e.reason
    [] OTHER -> x = RemovedHandler(e)

\* the entry x holds the handler the removal e names
HandlerMatches(e, x) == HandlerOf(RegistryOf[e.xml], x) = RemovedHandler(e)

\* a registry without the entries that satisfy Gone
Without(reg, r, Gone(_)) ==
  IF reg = "iqId"
    THEN [ id \in { i \in DOMAIN r : ~Gone(r[i]) } |-> r[id] ]
    ELSE SelectSeq(r, LAMBDA x : ~Gone(x))

Entries(r) == { << i, r[i] >> : i \in DOMAIN r }

EntrySet(reg, r) == IF reg = "iqId" THEN Entries(r) ELSE Range(r)

\* every handler call of the log is for an entry of the registries regs
CallsRegistered(log, regs) ==
  \A i \in DOMAIN log :
    LET e == log[i]
        tags == { log[j].info.tag : j \in { k \in DOMAIN log : log[k].ev = "parsed" } }
    IN  CASE e.ev = "handlePresence" ->
               IF e.info.list = "jid"
                 THEN \E tag \in tags :
                        [ jid |-> tag.from.bare, ph |-> e.info.ph ] \in Range(regs.presenceJid)
                 ELSE e.info.ph \in Range(regs.presence)
          [] e.ev = "handleSubscription" -> e.info.sh \in Range(regs.subscription)
          [] e.ev = "handleMessage" -> e.info.mh \in Range(regs.message)
          [] e.ev = "TagHandler::handleTag" ->
               \E tag \in tags :
                 [ tag |-> tag.name, xmlns |-> tag.xmlns, th |-> e.reason ] \in Range(regs.tag)
          [] e.ev = "onDisconnect" -> e.n \in Range(regs.listener)
          [] e.ev = "handleIq" ->
               \E k \in DOMAIN e.info.iq.exts :
                 [ ext |-> e.info.iq.exts[k], ih |-> e.info.ih ] \in Range(regs.iqExt)
          [] e.ev = "handleIqID" ->
               /\ e.info.iq.id \in DOMAIN regs.iqId
               /\ regs.iqId[e.info.iq.id].ih = e.info.ih
          [] OTHER -> TRUE

\* a step adds entries to a registry only by registering
OnlyRegistrationAdds ==
  \A reg \in DOMAIN Registries :
    \/ trace'[1].xml = RegisterOpOf[reg]
    \/ EntrySet(reg, Registries'[reg]) \subseteq EntrySet(reg, Registries[reg])

RemovalByKey ==
  LET e == trace'[1]
  IN  e.xml \in RemoveOps =>
        Registries' = [ Registries EXCEPT
                          ![RegistryOf[e.xml]] =
                            Without(RegistryOf[e.xml], @, LAMBDA x : KeyMatches(e, x)) ]

RemovalByHandler ==
  LET e == trace'[1]
  IN  e.xml \in RemoveOps /\ (e.xml = "removeConnectionListener" \/ e.reason # Null) =>
        Registries' = [ Registries EXCEPT
                          ![RegistryOf[e.xml]] =
                            Without(RegistryOf[e.xml], @, LAMBDA x : HandlerMatches(e, x)) ]

-----------------------------------------------------------------------------
(* Stream errors.                                                          *)

\* the conditions named by the recognised children of the tag that carry
\* the XMPP-streams namespace
NamedConditions(tag) ==
  { StreamErrorOf[c.name] :
      c \in { x \in Range(tag.children) :
                x.name \in DOMAIN StreamErrorOf /\ x.xmlns = XMLNS_XMPP_STREAM } }

\* the key a text child is stored under
LangOf(c) == IF c.lang = "" THEN "default" ELSE c.lang

\* the texts after the text children of the tag are stored in the map old:
\* the last text of a language wins
TextsAfter(old, tag) ==
  LET texts == SelectSeq(tag.children, LAMBDA c : c.name = "text")
      langs == { LangOf(texts[k]) : k \in DOMAIN texts }
      last(l) == CHOOSE k \in DOMAIN texts :
                   /\ LangOf(texts[k]) = l
                   /\ \A j \in DOMAIN texts : LangOf(texts[j]) = l => j <= k
  IN  [ l \in DOMAIN old \cup langs |-> IF l \in langs THEN texts[last(l)].cdata ELSE old[l] ]

\* the stream error is the condition a namespaced, recognised child names
ConditionRecorded(e, tag) ==
  IF NamedConditions(tag) = { }
    THEN e.streamError = StreamErrorUndefined
    ELSE e.streamError \in NamedConditions(tag)

(* C30: on an inbound <stream:error> the recorded stream error is the      *)
(* condition named by a recognised child that carries the XMPP-streams     *)
(* namespace, Undefined when there is none; the text children are stored   *)
(* per xml:lang, under "default" without the attribute; the session then   *)
(* disconnects with reason StreamError, and the listeners get              *)
(* onDisconnect( StreamError ) while the recorded error has that value.    *)
C30_StreamError ==
  \A i \in Events("handleStreamError") :
    LET tag == trace[i].info.tag
    IN  /\ m_streamErrorText = TextsAfter(trace[i].info.text, tag)
        /\ \E d \in Events("disconnect") :
             /\ d = i + 1 /\ trace[d].reason = "ConnStreamError"
             /\ ConditionRecorded(trace[d], tag)
             /\ { trace[o].n : o \in Events("onDisconnect") } = Range(m_connectionListeners)
             /\ \A o \in Events("onDisconnect") :
                  /\ o > d /\ trace[o].reason = "ConnStreamError"
                  /\ trace[o].streamError = trace[d].streamError

-----------------------------------------------------------------------------
(* SASL messages.                                                          *)

ScramMechs == { SaslMechScramSha1, SaslMechScramSha1Plus }

\* the elements the last entry point built
SaslTags == { trace[i].info : i \in Events("tag") }

\* the gs2 header of a client-first message: the binding flag, the
\* authorization identity, and the comma after each
Gs2HeaderOf(msg) ==
  SubstrN(msg, 0, FindFrom(msg, << 44 >>, Find(msg, << 44 >>) + 1) + 1)

\* the value of c= in a client-final message: what stands between c= and ,r=
BindingOf(final) == SubstrN(final, 2, Find(final, << 44, 114, 61 >>) - 2)

\* the c= of every client-final message is the base64 of the gs2 header of
\* the client-first message, and of the channel binding after it under -PLUS
BindingMatchesHeader ==
  \A a \in SaslTags :
    a.cdata # << >> =>
      BindingOf(decode64(a.cdata))
        = encode64(Gs2HeaderOf(saslExchange.clientFirst)
                     \o (IF m_selectedSaslMech = SaslMechScramSha1Plus
                           THEN ChannelBinding ELSE << >>))

(* C31: in a SCRAM exchange the c= of the client-final message is the      *)
(* base64 of the gs2 header sent in the client-first message of the same   *)
(* exchange, followed by the channel binding of the TLS session under      *)
(* SCRAM-SHA-1-PLUS, whatever the mechanism, the allowed mechanisms and    *)
(* the authorization identity; under SCRAM-SHA-1 the value is biws.        *)
C31_ChannelBinding ==
  /\ Op = "startSASL" /\ m_selectedSaslMech \in ScramMechs =>
       \A a \in SaslTags : decode64(a.cdata) = saslExchange.clientFirst
  /\ Op = "processSASLChallenge" /\ m_selectedSaslMech \in ScramMechs =>
       /\ BindingMatchesHeader
       /\ m_selectedSaslMech = SaslMechScramSha1 =>
            \A a \in SaslTags :
              a.cdata # << >> => BindingOf(decode64(a.cdata)) = << 98, 105, 119, 115 >>

\* the elements of the given name the last entry point handed to send
SentTags(name) ==
  { i \in Events("send") \cup Events("sendDropped") : trace[i].xml = name }

(* C32: startSASL( PLAIN ) sends exactly one <auth mechanism='PLAIN'>; its *)
(* payload is the base64 of the bare authorization identity when one is    *)
(* set, a NUL, the authentication identity when it is not empty and the    *)
(* user name of the JID otherwise, a NUL, and the password.                *)
C32_PlainPayload ==
  Op = "startSASL" /\ trace[1].reason = SaslMechPlain =>
    /\ Cardinality(SentTags("auth")) = 1
    /\ Cardinality(Events("tag")) = 1
    /\ \A a \in SaslTags :
         /\ a.name = "auth" /\ a.mechanism = "PLAIN"
         /\ decode64(a.cdata)
              = m_authzid \o << 0 >>
                  \o (IF m_authcid = << >> THEN m_jid.username ELSE m_authcid)
                  \o << 0 >> \o m_password

\* PLAIN with an authorization identity and an authentication identity set,
\* and the element reaches the socket
C32_Witness ==
  /\ Op = "startSASL" /\ trace[1].reason = SaslMechPlain
  /\ m_authzid # << >> /\ m_authcid # << >>
  /\ \E i \in Events("sock") : trace[i].xml = "auth"

\* the value processSASLSuccess returned
SuccessReturned == trace[Len(trace)].info.ret

(* C34: under the SCRAM mechanisms processSASLSuccess returns true only    *)
(* when a challenge has been processed, and has given the ServerSignature, *)
(* since startSASL was called: a <success/> that no challenge of this      *)
(* exchange precedes is refused, whatever its payload and whatever         *)
(* signature an earlier exchange left behind.                              *)
C34_SuccessNeedsChallenge ==
  Op = "processSASLSuccess" /\ m_selectedSaslMech \in ScramMechs /\ SuccessReturned =>
    saslExchange.challenged

(* C35: every challenge handed to processSASLChallenge leads to exactly one *)
(* <response/> being sent, under every mechanism and for every text of the *)
(* challenge: a SCRAM challenge without r=, s= or i=, a DIGEST-MD5         *)
(* challenge without nonce, and a DIGEST-MD5 rspauth included.             *)
C35_OneResponse ==
  Op = "processSASLChallenge" => Cardinality(SentTags("response")) = 1

-----------------------------------------------------------------------------
(* Across a disconnect.                                                    *)

\* the log is that of an entry point during which a disconnect completed:
\* the listeners were notified and init ran
DisconnectCompleted(log) == \E i \in DOMAIN log : log[i].ev = "init"

\* what the application has set: the identities and the password
Credentials == [ jid |-> m_jid, password |-> m_password,
                 authzid |-> m_authzid, authcid |-> m_authcid ]

\* ClientBase::connect would go on to open the connection
CanConnect == ~(m_connection /\ StateRank(connectionState) >= StateRank(StateConnecting))

\* the step leaves what the application has built up as it was
KeptAcrossStep ==
  /\ Registries' = Registries
  /\ m_presenceExtensions' = m_presenceExtensions
  /\ Credentials' = Credentials
  /\ m_smQueue' = m_smQueue

-----------------------------------------------------------------------------
(* Deleted handlers and the built-in ping.                                 *)

(* C36: no IQ id handler is called after it has been deleted: once an      *)
(* entry with the delete flag has fired and its handler has been deleted,  *)
(* no later dispatch calls handleIqID on that handler, for any sequence of *)
(* tracked sends and answers, the same handler tracked under several ids   *)
(* included.                                                               *)
C36_NoCallAfterDelete ==
  \A i \in Events("handleIqID") : ~trace[i].info.dangling

\* the IQ carries a ping extension
CarriesPing(iq) == \E k \in DOMAIN iq.exts : iq.exts[k] = ExtPing

\* the built-in handler was asked, it returned true, it is registered; a
\* handler of the application returned true
BuiltInAsked == \E j \in Events("handleIq") : trace[j].info.ih = This
BuiltInHandled == \E j \in Events("handleIq") : trace[j].info.ih = This /\ trace[j].info.ret
BuiltInRegistered == \E k \in DOMAIN m_iqExtHandlers : m_iqExtHandlers[k] = [ ext |-> ExtPing, ih |-> This ]
UserHandled == \E j \in Events("handleIq") : trace[j].info.ih # This /\ trace[j].info.ret

\* the IQ dispatched at entry i gets one reply: a Result with its id, to its
\* sender, that reaches the socket
PingAnsweredOnce(i, iq) ==
  /\ Cardinality(RepliesAfter(i)) = 1
  /\ \A j \in RepliesAfter(i) :
       /\ trace[j].info.iq.subtype = "result"
       /\ trace[j].info.iq.id = iq.id
       /\ trace[j].info.iq.to = iq.from
       /\ \E k \in Events("sock") : k > j /\ trace[k].xml = "iq"

====
